---- MODULE Spec2Model ----
(***************************************************************************)
(* A model of the ssc compiler pipeline: lexer (src/src/lexer.rs), parser  *)
(* tree shape (src/src/parser.rs), semantic analyzer (src/src/semantic.rs) *)
(* and code generator (src/src/codegen.rs).                                *)
(*                                                                         *)
(* Characters are one-character strings, source texts are sequences of     *)
(* characters.  A Rust panic (index out of bounds) is an outcome of its    *)
(* own, distinct from Ok and Err.                                          *)
(***************************************************************************)
EXTENDS Integers, Sequences, FiniteSets, TLC

VARIABLES
    input, position, line, column, tokens, lexResult,
    module, symbol_table, current_function_return, agenda, semResult,
    label_counter, string_literals, variables, stack_offset, loop_stack, code,
    genAgenda, genResult,
    pc, registers, flags, memory, stack, calls, runResult,
    parser_tokens, current, module_name, parsed_items, parseResult,
    emit_ir, stage, stdout, files, compileResult,
    returned

lexVars == <<input, position, line, column, tokens, lexResult>>

semVars == <<module, symbol_table, current_function_return, agenda, semResult>>

genVars ==
    <<label_counter, string_literals, variables, stack_offset, loop_stack, code,
      genAgenda, genResult>>

runVars == <<pc, registers, flags, memory, stack, calls, runResult>>

parseVars == <<parser_tokens, current, module_name, parsed_items, parseResult>>

compileVars == <<emit_ir, stage, stdout, files, compileResult>>

\* the stages added to the four above
laterVars == <<parseVars, compileVars, returned>>

vars == <<lexVars, semVars, genVars, runVars, laterVars>>

(***************************************************************************)
(* Bounds of the model.                                                    *)
(***************************************************************************)
MaxCommentLen == 5
MaxOpLen == 3
MaxLitLen == 4
MaxNumLen == 4
MaxNodes == 4
MaxBound == 2
MaxCalls == 4
MaxOperands == 3
MaxPrefixLen == 2
MaxStmts == 2
MaxTopLen == 4
MaxBodyLen == 4
MaxGeneratorCalls == 3
MaxSourceLen == 3

(***************************************************************************)
(* Characters.                                                             *)
(***************************************************************************)
NL == "\n"
TAB == "\t"
CR == "\r"
BS == "\\"
DQ == "\""
SQ == "'"
NoChar == ""

Digits == {"0", "1", "2", "3", "4", "5", "6", "7", "8", "9"}

Letters ==
    {"a", "b", "c", "d", "e", "f", "g", "h", "i", "j", "k", "l", "m",
     "n", "o", "p", "q", "r", "s", "t", "u", "v", "w", "x", "y", "z"}

IsDigit(c) == c \in Digits

IsAlphabetic(c) == c \in Letters

IsAlphanumeric(c) == c \in Letters \cup Digits

Keywords ==
    <<"m", "o", "d", "u", "l", "e">> :> "Module" @@
    <<"i", "m", "p", "o", "r", "t">> :> "Import" @@
    <<"f", "n">> :> "Fn" @@
    <<"l", "e", "t">> :> "Let" @@
    <<"m", "u", "t">> :> "Mut" @@
    <<"c", "o", "n", "s", "t">> :> "Const" @@
    <<"r", "e", "t", "u", "r", "n">> :> "Return" @@
    <<"i", "f">> :> "If" @@
    <<"e", "l", "s", "e">> :> "Else" @@
    <<"w", "h", "i", "l", "e">> :> "While" @@
    <<"f", "o", "r">> :> "For" @@
    <<"l", "o", "o", "p">> :> "Loop" @@
    <<"b", "r", "e", "a", "k">> :> "Break" @@
    <<"c", "o", "n", "t", "i", "n", "u", "e">> :> "Continue" @@
    <<"s", "t", "r", "u", "c", "t">> :> "Struct" @@
    <<"e", "n", "u", "m">> :> "Enum" @@
    <<"u", "n", "i", "o", "n">> :> "Union" @@
    <<"t", "y", "p", "e">> :> "Type" @@
    <<"p", "u", "b">> :> "Pub" @@
    <<"u", "n", "s", "a", "f", "e">> :> "Unsafe" @@
    <<"d", "e", "f", "e", "r">> :> "Defer" @@
    <<"i", "8">> :> "I8" @@
    <<"i", "1", "6">> :> "I16" @@
    <<"i", "3", "2">> :> "I32" @@
    <<"i", "6", "4">> :> "I64" @@
    <<"u", "8">> :> "U8" @@
    <<"u", "1", "6">> :> "U16" @@
    <<"u", "3", "2">> :> "U32" @@
    <<"u", "6", "4">> :> "U64" @@
    <<"f", "3", "2">> :> "F32" @@
    <<"f", "6", "4">> :> "F64" @@
    <<"b", "o", "o", "l">> :> "Bool" @@
    <<"c", "h", "a", "r">> :> "Char" @@
    <<"v", "o", "i", "d">> :> "Void" @@
    <<"s", "t", "r">> :> "Str" @@
    <<"t", "r", "u", "e">> :> "BoolLiteral" @@
    <<"f", "a", "l", "s", "e">> :> "BoolLiteral"

(***************************************************************************)
(* Lexer cursor: L = [position, line, column], position 0-based as in the  *)
(* code; inp[position + 1] is the character under the cursor.              *)
(***************************************************************************)
NewLexer == [position |-> 0, line |-> 1, column |-> 1]

is_at_end(inp, L) == L.position >= Len(inp)

\* self.input[self.position]: the callers below yield LexPanic where the code
\* indexes at or past the end of the input.
current_char(inp, L) == inp[L.position + 1]

peek(inp, L) ==
    IF L.position + 1 < Len(inp) THEN inp[L.position + 2] ELSE NoChar

advance(L) == [L EXCEPT !.position = @ + 1, !.column = @ + 1]

newline_keep_line(L) == [L EXCEPT !.position = @ + 1, !.column = 1]

\* the `'\n'` arms of skip_whitespace and skip_block_comment
newline(L) == [L EXCEPT !.position = @ + 1, !.line = @ + 1, !.column = 1]

LexOk(L, type, text) == [res |-> "ok", L |-> L, type |-> type, text |-> text]

LexErr(msg) == [res |-> "err", msg |-> msg]

LexPanic == [res |-> "panic"]

RECURSIVE skip_whitespace(_, _)
skip_whitespace(inp, L) ==
    IF is_at_end(inp, L) THEN L
    ELSE IF current_char(inp, L) \in {" ", TAB, CR}
         THEN skip_whitespace(inp, advance(L))
    ELSE IF current_char(inp, L) = NL
         THEN skip_whitespace(inp, newline(L))
    ELSE L

RECURSIVE skip_line_comment(_, _)
skip_line_comment(inp, L) ==
    IF ~is_at_end(inp, L) /\ current_char(inp, L) # NL
    THEN skip_line_comment(inp, advance(L))
    ELSE L

RECURSIVE block_comment_loop(_, _)
block_comment_loop(inp, L) ==
    IF is_at_end(inp, L) THEN LexErr("Unterminated block comment")
    ELSE IF current_char(inp, L) = "*" /\ peek(inp, L) = "/"
         THEN LexOk(advance(advance(L)), "Comment", <<>>)
    ELSE IF current_char(inp, L) = NL
         THEN block_comment_loop(inp, newline(L))
    ELSE block_comment_loop(inp, advance(L))

skip_block_comment(inp, L) == block_comment_loop(inp, advance(advance(L)))

RECURSIVE ident_loop(_, _, _)
ident_loop(inp, L, s) ==
    IF ~is_at_end(inp, L)
       /\ (IsAlphanumeric(current_char(inp, L)) \/ current_char(inp, L) = "_")
    THEN ident_loop(inp, advance(L), Append(s, current_char(inp, L)))
    ELSE [L |-> L, s |-> s]

read_identifier(inp, L) ==
    LET r == ident_loop(inp, L, <<>>)
    IN  IF r.s \in DOMAIN Keywords
        THEN LexOk(r.L, Keywords[r.s], r.s)
        ELSE LexOk(r.L, "Identifier", r.s)

RECURSIVE digit_loop(_, _, _)
digit_loop(inp, L, s) ==
    IF ~is_at_end(inp, L) /\ IsDigit(current_char(inp, L))
    THEN digit_loop(inp, advance(L), Append(s, current_char(inp, L)))
    ELSE [L |-> L, s |-> s]

DigitValue ==
    "0" :> 0 @@ "1" :> 1 @@ "2" :> 2 @@ "3" :> 3 @@ "4" :> 4 @@
    "5" :> 5 @@ "6" :> 6 @@ "7" :> 7 @@ "8" :> 8 @@ "9" :> 9

\* the decimal digits of i64::MAX
MaxI64Digits ==
    <<"9", "2", "2", "3", "3", "7", "2", "0", "3", "6",
      "8", "5", "4", "7", "7", "5", "8", "0", "7">>

RECURSIVE StripZeros(_)
StripZeros(s) ==
    IF s # <<>> /\ Head(s) = "0" THEN StripZeros(Tail(s)) ELSE s

\* s <= t for digit strings of equal length
RECURSIVE DigitsLeq(_, _)
DigitsLeq(s, t) ==
    IF s = <<>> THEN TRUE
    ELSE IF DigitValue[Head(s)] # DigitValue[Head(t)]
         THEN DigitValue[Head(s)] < DigitValue[Head(t)]
         ELSE DigitsLeq(Tail(s), Tail(t))

\* str::parse::<i64> on a non-empty digit run: Ok exactly when the value is
\* at most i64::MAX.
parse_i64_ok(s) ==
    LET d == StripZeros(s)
    IN  \/ Len(d) < Len(MaxI64Digits)
        \/ Len(d) = Len(MaxI64Digits) /\ DigitsLeq(d, MaxI64Digits)

\* num_str.parse().unwrap(): a digit run above i64::MAX panics; "1." and
\* "1.5" parse as f64, and so does every longer run (to a finite value or
\* to infinity).
read_number(inp, L) ==
    LET i == digit_loop(inp, L, <<>>)
        int == IF parse_i64_ok(i.s) THEN LexOk(i.L, "IntLiteral", i.s)
               ELSE LexPanic
    IN  IF ~is_at_end(inp, i.L) /\ current_char(inp, i.L) = "."
        THEN IF peek(inp, i.L) = "."
             THEN int
             ELSE LET f == digit_loop(inp, advance(i.L), Append(i.s, "."))
                  IN  LexOk(f.L, "FloatLiteral", f.s)
        ELSE int

StringEscape(c) ==
    CASE c = "n" -> NL
      [] c = "t" -> TAB
      [] c = "r" -> CR
      [] OTHER -> c

RECURSIVE string_loop(_, _, _)
string_loop(inp, L, s) ==
    IF ~is_at_end(inp, L) /\ current_char(inp, L) # DQ
    THEN IF current_char(inp, L) = BS
         THEN LET L1 == advance(L)
              IN  IF is_at_end(inp, L1)
                  THEN LexErr("Unterminated string")
                  ELSE string_loop(inp, advance(L1),
                                   Append(s, StringEscape(current_char(inp, L1))))
         ELSE string_loop(inp, advance(L), Append(s, current_char(inp, L)))
    ELSE IF is_at_end(inp, L)
         THEN LexErr("Unterminated string")
         ELSE LexOk(advance(L), "StringLiteral", s)

read_string(inp, L) == string_loop(inp, advance(L), <<>>)

\* After a backslash the code reads current_char() without an is_at_end test.
read_char(inp, L) ==
    LET L1 == advance(L)
    IN  IF is_at_end(inp, L1) THEN LexErr("Unterminated character")
        ELSE LET esc == current_char(inp, L1) = BS
                 L2 == IF esc THEN advance(L1) ELSE L1
             IN  IF is_at_end(inp, L2) THEN LexPanic
                 ELSE LET ch == IF esc THEN StringEscape(current_char(inp, L2))
                                       ELSE current_char(inp, L2)
                          L3 == advance(L2)
                      IN  IF is_at_end(inp, L3) \/ current_char(inp, L3) # SQ
                          THEN LexErr("Unterminated character")
                          ELSE LexOk(advance(L3), "CharLiteral", <<ch>>)

\* The one-character arms of the `match c` of next_token.
SingleTokens ==
    "+" :> "Plus" @@ "*" :> "Star" @@ "/" :> "Slash" @@ "%" :> "Percent" @@
    "^" :> "Caret" @@ "~" :> "Tilde" @@ "(" :> "LeftParen" @@
    ")" :> "RightParen" @@ "{" :> "LeftBrace" @@ "}" :> "RightBrace" @@
    "[" :> "LeftBracket" @@ "]" :> "RightBracket" @@ ";" :> "Semicolon" @@
    "," :> "Comma" @@ "." :> "Dot"

\* The arms that look at the character after the first one: the token of the
\* first character alone, and the two-character tokens by second character.
LookaheadTokens ==
    "-" :> [single |-> "Minus", double |-> (">" :> "Arrow")] @@
    "=" :> [single |-> "Equal",
            double |-> ("=" :> "EqualEqual" @@ ">" :> "FatArrow")] @@
    "!" :> [single |-> "Bang", double |-> ("=" :> "NotEqual")] @@
    "<" :> [single |-> "Less",
            double |-> ("=" :> "LessEqual" @@ "<" :> "LessLess")] @@
    ">" :> [single |-> "Greater",
            double |-> ("=" :> "GreaterEqual" @@ ">" :> "GreaterGreater")] @@
    "&" :> [single |-> "Amp", double |-> ("&" :> "AmpAmp")] @@
    "|" :> [single |-> "Pipe", double |-> ("|" :> "PipePipe")] @@
    ":" :> [single |-> "Colon", double |-> (":" :> "ColonColon")]

\* self.advance(); if self.current_char() == .. : the second read is unguarded.
lookahead_token(inp, L, c) ==
    LET L1 == advance(L)
        t == LookaheadTokens[c]
    IN  IF is_at_end(inp, L1) THEN LexPanic
        ELSE IF current_char(inp, L1) \in DOMAIN t.double
             THEN LexOk(advance(L1), t.double[current_char(inp, L1)], <<>>)
             ELSE LexOk(L1, t.single, <<>>)

Positioned(r, L) ==
    IF r.res = "ok"
    THEN [res |-> "ok", L |-> r.L,
          token |-> [token_type |-> r.type, text |-> r.text,
                     line |-> L.line, column |-> L.column]]
    ELSE r

\* After a comment next_token calls itself: no skip_whitespace and no
\* is_at_end test come before the recursive call's current_char().
RECURSIVE next_token(_, _)
next_token(inp, L) ==
    IF is_at_end(inp, L) THEN LexPanic
    ELSE LET c == current_char(inp, L)
         IN  IF c = "/" /\ peek(inp, L) = "/"
             THEN next_token(inp, skip_line_comment(inp, L))
             ELSE IF c = "/" /\ peek(inp, L) = "*"
             THEN LET r == skip_block_comment(inp, L)
                  IN  IF r.res = "ok" THEN next_token(inp, r.L) ELSE r
             ELSE IF IsDigit(c) THEN Positioned(read_number(inp, L), L)
             ELSE IF IsAlphabetic(c) \/ c = "_"
             THEN Positioned(read_identifier(inp, L), L)
             ELSE IF c = DQ THEN Positioned(read_string(inp, L), L)
             ELSE IF c = SQ THEN Positioned(read_char(inp, L), L)
             ELSE IF c \in DOMAIN SingleTokens
             THEN Positioned(LexOk(advance(L), SingleTokens[c], <<>>), L)
             ELSE IF c \in DOMAIN LookaheadTokens
             THEN Positioned(lookahead_token(inp, L, c), L)
             ELSE [res |-> "err", msg |-> "Unexpected character",
                   ch |-> c, line |-> L.line, column |-> L.column]

EofToken(L) ==
    [token_type |-> "Eof", text |-> <<>>, line |-> L.line, column |-> L.column]

\* One iteration of the loop of tokenize on the state st = [L, tokens, result].
tokenize_step(inp, st) ==
    LET L1 == skip_whitespace(inp, st.L)
    IN  IF is_at_end(inp, L1)
        THEN [L |-> L1, tokens |-> Append(st.tokens, EofToken(L1)),
              result |-> [kind |-> "Ok"]]
        ELSE LET r == next_token(inp, L1)
             IN  CASE r.res = "ok" ->
                        [L |-> r.L, tokens |-> Append(st.tokens, r.token),
                         result |-> [kind |-> "Running"]]
                   [] r.res = "err" ->
                        [L |-> L1, tokens |-> st.tokens,
                         result |-> [kind |-> "Err", msg |-> r.msg]]
                   [] r.res = "panic" ->
                        [L |-> L1, tokens |-> st.tokens,
                         result |-> [kind |-> "Panic"]]

RECURSIVE tokenize_loop(_, _)
tokenize_loop(inp, st) ==
    IF st.result.kind # "Running" THEN st
    ELSE tokenize_loop(inp, tokenize_step(inp, st))

\* Lexer::new(input).tokenize(): Ok carries the token vector; Err and a panic
\* carry none.
tokenize(inp) ==
    LET st == tokenize_loop(inp, [L |-> NewLexer, tokens |-> <<>>,
                                  result |-> [kind |-> "Running"]])
    IN  IF st.result.kind = "Ok"
        THEN [kind |-> "Ok", tokens |-> st.tokens]
        ELSE st.result

(***************************************************************************)
(* The tree the parser builds (parser.rs, AstNode / Type / Literal).  An   *)
(* Option is a record of its own: NoType, NoNode, NoBlock stand for None.  *)
(***************************************************************************)
Ty(tag) == [tag |-> tag]

ArrayTy(elem, len) == [tag |-> "Array", elem |-> elem, len |-> len]

NoType == [tag |-> "None"]

NoNode == [kind |-> "None"]

NoBlock == [some |-> FALSE, body |-> <<>>]

SomeBlock(body) == [some |-> TRUE, body |-> body]

Module(name, items) == [kind |-> "Module", name |-> name, items |-> items]

Param(name, type) == [name |-> name, type |-> type]

Function(name, params, return_type, body) ==
    [kind |-> "Function", name |-> name, params |-> params,
     return_type |-> return_type, body |-> body]

VariableDecl(name, var_type, value, mutable) ==
    [kind |-> "VariableDecl", name |-> name, var_type |-> var_type,
     value |-> value, mutable |-> mutable]

ConstDecl(name, const_type, value) ==
    [kind |-> "ConstDecl", name |-> name, const_type |-> const_type,
     value |-> value]

Return(value) == [kind |-> "Return", value |-> value]

BinaryOp(left, op, right) ==
    [kind |-> "BinaryOp", left |-> left, op |-> op, right |-> right]

UnaryOp(op, operand) == [kind |-> "UnaryOp", op |-> op, operand |-> operand]

\* An i64: TLC's integers end at 2^31, so a 64-bit value is written as a small
\* offset from 0, from i64::MAX (offsets <= 0) or from i64::MIN (offsets >= 0).
I64(n) == [near |-> "0", off |-> n]

I64NearMax(k) == [near |-> "max", off |-> 0 - k]

IntLit(n) == [kind |-> "Literal", lit |-> "Int", int |-> I64(n)]

\* The literal i64::MAX - k.
IntLitNearMax(k) == [kind |-> "Literal", lit |-> "Int", int |-> I64NearMax(k)]

BoolLit(b) == [kind |-> "Literal", lit |-> "Bool", bool |-> b]

StringLit(s) == [kind |-> "Literal", lit |-> "String", str |-> s]

Identifier(name) == [kind |-> "Identifier", name |-> name]

FunctionCall(name, args) ==
    [kind |-> "FunctionCall", name |-> name, args |-> args]

If(condition, then_branch, else_branch) ==
    [kind |-> "If", condition |-> condition, then_branch |-> then_branch,
     else_branch |-> else_branch]

While(condition, body) ==
    [kind |-> "While", condition |-> condition, body |-> body]

For(iterator, range_start, range_end, inclusive, body) ==
    [kind |-> "For", iterator |-> iterator, range_start |-> range_start,
     range_end |-> range_end, inclusive |-> inclusive, body |-> body]

Loop(body) == [kind |-> "Loop", body |-> body]

Break == [kind |-> "Break"]

Continue == [kind |-> "Continue"]

Assignment(target, value) ==
    [kind |-> "Assignment", target |-> target, value |-> value]

ArrayLiteral(elements) == [kind |-> "ArrayLiteral", elements |-> elements]

ArrayRepeat(value, count) ==
    [kind |-> "ArrayRepeat", value |-> value, count |-> count]

ArrayIndex(array, index) ==
    [kind |-> "ArrayIndex", array |-> array, index |-> index]

\* The variants parse_expression can return (parse_logical_or .. parse_primary).
ExpressionKinds ==
    {"BinaryOp", "UnaryOp", "Literal", "Identifier", "FunctionCall",
     "ArrayLiteral", "ArrayRepeat", "ArrayIndex"}

(***************************************************************************)
(* Parser (parser.rs).  A token is the record the lexer pushes; the cursor *)
(* cur is Parser.current, 0-based: toks[cur + 1] is the current token.  A  *)
(* parse function returns POk(cursor after it, what it built) or PErr; a   *)
(* loop whose iteration neither moves the cursor nor returns would repeat  *)
(* the same iteration for ever, since the cursor is the parser's only      *)
(* mutable state: that outcome is PHang.                                   *)
(*                                                                         *)
(* `let r = self.f()?; rest` is written The({rest : r \in {f(..)}}) with   *)
(* the test of r.res inside rest: r is bound to the value of the call.     *)
(***************************************************************************)
The(S) == CHOOSE v \in S : TRUE

POk(cur, node) == [res |-> "ok", cur |-> cur, node |-> node]

PErr(msg) == [res |-> "err", msg |-> msg]

PHang == [res |-> "hang"]

FloatLit(text) == [kind |-> "Literal", lit |-> "Float", float |-> text]

CharLit(c) == [kind |-> "Literal", lit |-> "Char", char |-> c]

\* The payloads of a token: the String of Identifier and StringLiteral, the i64
\* of IntLiteral, the bool of BoolLiteral.
RECURSIVE Name(_)
Name(text) == IF text = <<>> THEN "" ELSE Head(text) \o Name(Tail(text))

RECURSIVE Decimal(_, _)
Decimal(text, acc) ==
    IF text = <<>> THEN acc
    ELSE Decimal(Tail(text), 10 * acc + DigitValue[Head(text)])

current_token(toks, cur) == toks[cur + 1]

previous_token(toks, cur) == toks[cur]

parser_is_at_end(toks, cur) == current_token(toks, cur).token_type = "Eof"

parser_advance(toks, cur) ==
    IF ~parser_is_at_end(toks, cur) THEN cur + 1 ELSE cur

\* std::mem::discriminant: the variant is compared, the payload is not
check(toks, cur, type) ==
    IF parser_is_at_end(toks, cur) THEN FALSE
    ELSE current_token(toks, cur).token_type = type

match_token(toks, cur, type) ==
    IF check(toks, cur, type)
    THEN [hit |-> TRUE, cur |-> parser_advance(toks, cur)]
    ELSE [hit |-> FALSE, cur |-> cur]

match_any(toks, cur, types) ==
    IF \E t \in types : check(toks, cur, t)
    THEN [hit |-> TRUE, cur |-> parser_advance(toks, cur)]
    ELSE [hit |-> FALSE, cur |-> cur]

expect_token(toks, cur, type) ==
    IF check(toks, cur, type)
    THEN POk(parser_advance(toks, cur), NoNode)
    ELSE [res |-> "err", msg |-> "Expected", expected |-> type,
          got |-> current_token(toks, cur)]

TypeTokens ==
    {"I8", "I16", "I32", "I64", "U8", "U16", "U32", "U64", "F32", "F64",
     "Bool", "Char", "Void", "Str"}

RECURSIVE parse_type(_, _)
parse_type(toks, cur) ==
    LET t == current_token(toks, cur).token_type
    IN  IF t \in TypeTokens THEN POk(parser_advance(toks, cur), Ty(t))
        ELSE IF t = "LeftBracket"
        THEN The({ IF e.res # "ok" THEN e ELSE
                   LET s == expect_token(toks, e.cur, "Semicolon")
                   IN  IF s.res # "ok" THEN s ELSE
                       IF current_token(toks, s.cur).token_type = "IntLiteral"
                       THEN LET size == Decimal(current_token(toks, s.cur).text, 0)
                                b == expect_token(toks,
                                       parser_advance(toks, s.cur), "RightBracket")
                            IN  IF b.res # "ok" THEN b
                                ELSE POk(b.cur, ArrayTy(e.node, size))
                       ELSE PErr("Expected array size") :
                   e \in {parse_type(toks, parser_advance(toks, cur))} })
        ELSE PErr("Expected type")

EqualityOps == "EqualEqual" :> "==" @@ "NotEqual" :> "!="

ComparisonTokens ==
    "Less" :> "<" @@ "LessEqual" :> "<=" @@ "Greater" :> ">" @@
    "GreaterEqual" :> ">="

TermOps == "Plus" :> "+" @@ "Minus" :> "-"

FactorOps == "Star" :> "*" @@ "Slash" :> "/" @@ "Percent" :> "%"

UnaryOps == "Minus" :> "-" @@ "Bang" :> "!"

\* parse_logical_or, parse_logical_and, parse_equality, parse_comparison,
\* parse_term and parse_factor are one function written six times: the n-th
\* matches the operator tokens of BinaryLevels[n], names the operator by the
\* token it matched and parses each operand with the next function (parse_unary
\* after the last).
BinaryLevelsFlat ==
    <<"PipePipe" :> "||", "AmpAmp" :> "&&", EqualityOps, ComparisonTokens,
      TermOps @@ FactorOps>>

BinaryLevels ==
    <<"PipePipe" :> "||", "AmpAmp" :> "&&", EqualityOps, ComparisonTokens,
      TermOps, FactorOps>>

RECURSIVE parse_expression(_, _)
RECURSIVE parse_level(_, _, _)
RECURSIVE level_loop(_, _, _, _)
RECURSIVE parse_unary(_, _)
RECURSIVE parse_primary(_, _)
RECURSIVE call_args_loop(_, _, _)
RECURSIVE array_elements_loop(_, _, _)

level_operand(toks, cur, n) ==
    IF n < Len(BinaryLevels) THEN parse_level(toks, cur, n + 1)
    ELSE parse_unary(toks, cur)

\* while self.match_any(ops) { let op = ...; let right = self.operand()?;
\* left = BinaryOp { left, op, right }; }
level_loop(toks, cur, left, n) ==
    LET m == match_any(toks, cur, DOMAIN BinaryLevels[n])
    IN  IF m.hit
        THEN The({ IF right.res # "ok" THEN right
                   ELSE level_loop(toks, right.cur,
                          BinaryOp(left,
                            BinaryLevels[n][previous_token(toks, m.cur).token_type],
                            right.node), n) :
                   right \in {level_operand(toks, m.cur, n)} })
        ELSE POk(cur, left)

parse_level(toks, cur, n) ==
    The({ IF left.res # "ok" THEN left
          ELSE level_loop(toks, left.cur, left.node, n) :
          left \in {level_operand(toks, cur, n)} })

parse_logical_or(toks, cur) == parse_level(toks, cur, 1)

parse_logical_and(toks, cur) == parse_level(toks, cur, 2)

parse_equality(toks, cur) == parse_level(toks, cur, 3)

parse_comparison(toks, cur) == parse_level(toks, cur, 4)

parse_term(toks, cur) == parse_level(toks, cur, 5)

parse_factor(toks, cur) == parse_level(toks, cur, 6)

parse_expression(toks, cur) == parse_logical_or(toks, cur)

parse_unary(toks, cur) ==
    LET m == match_any(toks, cur, DOMAIN UnaryOps)
    IN  IF m.hit
        THEN The({ IF operand.res # "ok" THEN operand
                   ELSE POk(operand.cur,
                            UnaryOp(UnaryOps[previous_token(toks, m.cur).token_type],
                                    operand.node)) :
                   operand \in {parse_unary(toks, m.cur)} })
        ELSE parse_primary(toks, cur)

\* while !self.check(RightParen) { args.push(parse_expression()?); if
\* !self.match_token(Comma) { break; } }
call_args_loop(toks, cur, args) ==
    IF ~check(toks, cur, "RightParen")
    THEN The({ IF a.res # "ok" THEN a ELSE
               LET m == match_token(toks, a.cur, "Comma")
               IN  IF ~m.hit THEN POk(m.cur, Append(args, a.node))
                   ELSE call_args_loop(toks, m.cur, Append(args, a.node)) :
               a \in {parse_expression(toks, cur)} })
    ELSE POk(cur, args)

\* while self.match_token(Comma) { if self.check(RightBracket) { break; }
\* elements.push(parse_expression()?); }
array_elements_loop(toks, cur, elements) ==
    LET m == match_token(toks, cur, "Comma")
    IN  IF m.hit
        THEN IF check(toks, m.cur, "RightBracket") THEN POk(m.cur, elements)
             ELSE The({ IF e.res # "ok" THEN e
                        ELSE array_elements_loop(toks, e.cur,
                                                 Append(elements, e.node)) :
                        e \in {parse_expression(toks, m.cur)} })
        ELSE POk(cur, elements)

\* expect_token(type)?; Ok(node)
closed_by(toks, cur, type, node) ==
    LET e == expect_token(toks, cur, type)
    IN  IF e.res # "ok" THEN e ELSE POk(e.cur, node)

parse_primary(toks, cur) ==
    LET t == current_token(toks, cur)
        c1 == parser_advance(toks, cur)
    IN  CASE t.token_type = "IntLiteral" ->
               POk(c1, [kind |-> "Literal", lit |-> "Int",
                        int |-> I64(Decimal(t.text, 0))])
          [] t.token_type = "FloatLiteral" -> POk(c1, FloatLit(t.text))
          [] t.token_type = "StringLiteral" -> POk(c1, StringLit(Name(t.text)))
          [] t.token_type = "CharLiteral" -> POk(c1, CharLit(Name(t.text)))
          [] t.token_type = "BoolLiteral" ->
               POk(c1, BoolLit(t.text = <<"t", "r", "u", "e">>))
          [] t.token_type = "Identifier" ->
               IF check(toks, c1, "LeftBracket")
               THEN The({ IF index.res # "ok" THEN index
                          ELSE closed_by(toks, index.cur, "RightBracket",
                                 ArrayIndex(Identifier(Name(t.text)), index.node)) :
                          index \in {parse_expression(toks,
                                                      parser_advance(toks, c1))} })
               ELSE IF check(toks, c1, "LeftParen")
               THEN The({ IF args.res # "ok" THEN args
                          ELSE closed_by(toks, args.cur, "RightParen",
                                         FunctionCall(Name(t.text), args.node)) :
                          args \in {call_args_loop(toks, parser_advance(toks, c1),
                                                   <<>>)} })
               ELSE POk(c1, Identifier(Name(t.text)))
          [] t.token_type = "LeftParen" ->
               The({ IF expr.res # "ok" THEN expr
                     ELSE closed_by(toks, expr.cur, "RightParen", expr.node) :
                     expr \in {parse_expression(toks, c1)} })
          [] t.token_type = "LeftBracket" ->
               IF check(toks, c1, "RightBracket")
               THEN POk(parser_advance(toks, c1), ArrayLiteral(<<>>))
               ELSE The({
                 IF first_expr.res # "ok" THEN first_expr ELSE
                 LET semi == match_token(toks, first_expr.cur, "Semicolon")
                 IN  IF semi.hit
                     THEN IF current_token(toks, semi.cur).token_type = "IntLiteral"
                          THEN closed_by(toks, parser_advance(toks, semi.cur),
                                 "RightBracket",
                                 ArrayRepeat(first_expr.node,
                                   Decimal(current_token(toks, semi.cur).text, 0)))
                          ELSE PErr("Expected array size")
                     ELSE The({ IF els.res # "ok" THEN els
                                ELSE closed_by(toks, els.cur, "RightBracket",
                                               ArrayLiteral(els.node)) :
                                els \in {array_elements_loop(toks, first_expr.cur,
                                           <<first_expr.node>>)} }) :
                 first_expr \in {parse_expression(toks, c1)} })
          [] OTHER -> [res |-> "err", msg |-> "Unexpected token", got |-> t]

RECURSIVE parse_block(_, _)
RECURSIVE block_loop(_, _, _)
RECURSIVE parse_statement(_, _)
RECURSIVE parse_if(_, _)
RECURSIVE parse_while(_, _)
RECURSIVE parse_for(_, _)
RECURSIVE parse_loop(_, _)

parse_variable_decl(toks, cur) ==
    LET mutable == match_token(toks, cur, "Mut")
        t == current_token(toks, mutable.cur)
        colon == match_token(toks, parser_advance(toks, mutable.cur), "Colon")
    IN  IF t.token_type # "Identifier" THEN PErr("Expected variable name") ELSE
        The({ IF var_type.res # "ok" THEN var_type ELSE
              LET eq == match_token(toks, var_type.cur, "Equal")
              IN  The({ IF value.res # "ok" THEN value
                        ELSE closed_by(toks, value.cur, "Semicolon",
                               VariableDecl(Name(t.text), var_type.node,
                                            value.node, mutable.hit)) :
                        value \in {IF eq.hit THEN parse_expression(toks, eq.cur)
                                   ELSE POk(eq.cur, NoNode)} }) :
              var_type \in {IF colon.hit THEN parse_type(toks, colon.cur)
                            ELSE POk(colon.cur, NoType)} })

parse_const_decl(toks, cur) ==
    LET t == current_token(toks, cur)
        colon == expect_token(toks, parser_advance(toks, cur), "Colon")
    IN  IF t.token_type # "Identifier" THEN PErr("Expected constant name")
        ELSE IF colon.res # "ok" THEN colon ELSE
        The({ IF const_type.res # "ok" THEN const_type ELSE
              LET eq == expect_token(toks, const_type.cur, "Equal")
              IN  IF eq.res # "ok" THEN eq ELSE
                  The({ IF value.res # "ok" THEN value
                        ELSE closed_by(toks, value.cur, "Semicolon",
                               ConstDecl(Name(t.text), const_type.node,
                                         value.node)) :
                        value \in {parse_expression(toks, eq.cur)} }) :
              const_type \in {parse_type(toks, colon.cur)} })

parse_return(toks, cur) ==
    The({ IF value.res # "ok" THEN value
          ELSE closed_by(toks, value.cur, "Semicolon", Return(value.node)) :
          value \in {IF ~check(toks, cur, "Semicolon")
                     THEN parse_expression(toks, cur)
                     ELSE POk(cur, NoNode)} })

\* `{` parse_block `}` as parse_function, parse_if, parse_while, parse_for and
\* parse_loop write it: expect_token(LeftBrace)?; parse_block()?;
\* expect_token(RightBrace)?
braced_block(toks, cur) ==
    LET open == expect_token(toks, cur, "LeftBrace")
    IN  IF open.res # "ok" THEN open ELSE
        The({ IF body.res # "ok" THEN body
              ELSE closed_by(toks, body.cur, "RightBrace", body.node) :
              body \in {parse_block(toks, open.cur)} })

\* expect_token(LeftParen)?; parse_expression()?; expect_token(RightParen)?
parenthesised_condition(toks, cur) ==
    LET open == expect_token(toks, cur, "LeftParen")
    IN  IF open.res # "ok" THEN open ELSE
        The({ IF condition.res # "ok" THEN condition
              ELSE closed_by(toks, condition.cur, "RightParen", condition.node) :
              condition \in {parse_expression(toks, open.cur)} })

parse_if(toks, cur) ==
    The({ IF condition.res # "ok" THEN condition ELSE
          The({ IF then_branch.res # "ok" THEN then_branch ELSE
                LET else == match_token(toks, then_branch.cur, "Else")
                IN  IF ~else.hit
                    THEN POk(else.cur, If(condition.node, then_branch.node,
                                          NoBlock))
                    ELSE The({ IF else_body.res # "ok" THEN else_body
                               ELSE POk(else_body.cur,
                                        If(condition.node, then_branch.node,
                                           SomeBlock(else_body.node))) :
                               else_body \in {braced_block(toks, else.cur)} }) :
                then_branch \in {braced_block(toks, condition.cur)} }) :
          condition \in {parenthesised_condition(toks, cur)} })

parse_while(toks, cur) ==
    The({ IF condition.res # "ok" THEN condition ELSE
          The({ IF body.res # "ok" THEN body
                ELSE POk(body.cur, While(condition.node, body.node)) :
                body \in {braced_block(toks, condition.cur)} }) :
          condition \in {parenthesised_condition(toks, cur)} })

\* the range operator after range_start: `..` or `...`
range_operator(toks, cur) ==
    LET d1 == match_token(toks, cur, "Dot")
        d2 == match_token(toks, d1.cur, "Dot")
        d3 == match_token(toks, d2.cur, "Dot")
    IN  IF ~d1.hit \/ ~d2.hit THEN PErr("Expected range operator")
        ELSE POk(d3.cur, d3.hit)

parse_for(toks, cur) ==
    LET open == expect_token(toks, cur, "LeftParen")
    IN  IF open.res # "ok" THEN open ELSE
        LET it == current_token(toks, open.cur)
            c1 == parser_advance(toks, open.cur)
        IN  IF it.token_type # "Identifier"
            THEN PErr("Expected iterator variable")
            ELSE IF \/ current_token(toks, c1).token_type # "Identifier"
                    \/ current_token(toks, c1).text # <<"i", "n">>
            THEN PErr("Expected 'in' keyword") ELSE
            The({ IF range_start.res # "ok" THEN range_start ELSE
                  LET inclusive == range_operator(toks, range_start.cur)
                  IN  IF inclusive.res # "ok" THEN inclusive ELSE
                      The({ IF range_end.res # "ok" THEN range_end ELSE
                            LET close == expect_token(toks, range_end.cur,
                                                      "RightParen")
                            IN  IF close.res # "ok" THEN close ELSE
                                The({ IF body.res # "ok" THEN body
                                      ELSE POk(body.cur,
                                             For(Name(it.text), range_start.node,
                                                 range_end.node, inclusive.node,
                                                 body.node)) :
                                      body \in {braced_block(toks, close.cur)} }) :
                            range_end \in {parse_expression(toks,
                                                            inclusive.cur)} }) :
                  range_start \in {parse_expression(toks,
                                                    parser_advance(toks, c1))} })

parse_loop(toks, cur) ==
    The({ IF body.res # "ok" THEN body ELSE POk(body.cur, Loop(body.node)) :
          body \in {braced_block(toks, cur)} })

parse_statement(toks, cur) ==
    LET t == current_token(toks, cur).token_type
        c1 == parser_advance(toks, cur)
    IN  CASE t = "Let" -> parse_variable_decl(toks, c1)
          [] t = "Const" -> parse_const_decl(toks, c1)
          [] t = "Return" -> parse_return(toks, c1)
          [] t = "If" -> parse_if(toks, c1)
          [] t = "While" -> parse_while(toks, c1)
          [] t = "For" -> parse_for(toks, c1)
          [] t = "Loop" -> parse_loop(toks, c1)
          [] t = "Break" -> closed_by(toks, c1, "Semicolon", Break)
          [] t = "Continue" -> closed_by(toks, c1, "Semicolon", Continue)
          [] OTHER ->
               The({ IF expr.res # "ok" THEN expr ELSE
                     LET eq == match_token(toks, expr.cur, "Equal")
                     IN  IF eq.hit /\ expr.node.kind = "Identifier"
                         THEN The({ IF value.res # "ok" THEN value
                                    ELSE closed_by(toks, value.cur, "Semicolon",
                                           Assignment(expr.node.name,
                                                      value.node)) :
                                    value \in {parse_expression(toks, eq.cur)} })
                         ELSE closed_by(toks, eq.cur, "Semicolon", expr.node) :
                     expr \in {parse_expression(toks, cur)} })

\* while !self.check(RightBrace) && !self.is_at_end() { statements.push(
\* self.parse_statement()?); }
block_loop(toks, cur, statements) ==
    IF ~check(toks, cur, "RightBrace") /\ ~parser_is_at_end(toks, cur)
    THEN The({ IF s.res # "ok" THEN s
               ELSE IF s.cur = cur THEN PHang
               ELSE block_loop(toks, s.cur, Append(statements, s.node)) :
               s \in {parse_statement(toks, cur)} })
    ELSE POk(cur, statements)

parse_block(toks, cur) == block_loop(toks, cur, <<>>)

\* while !self.check(RightParen) { name, `:`, type; if !match_token(Comma)
\* { break; } }
RECURSIVE params_loop(_, _, _)
params_loop(toks, cur, params) ==
    IF ~check(toks, cur, "RightParen")
    THEN LET t == current_token(toks, cur)
             colon == expect_token(toks, parser_advance(toks, cur), "Colon")
         IN  IF t.token_type # "Identifier" THEN PErr("Expected parameter name")
             ELSE IF colon.res # "ok" THEN colon ELSE
             The({ IF param_type.res # "ok" THEN param_type ELSE
                   LET ps == Append(params, Param(Name(t.text), param_type.node))
                       comma == match_token(toks, param_type.cur, "Comma")
                   IN  IF ~comma.hit THEN POk(comma.cur, ps)
                       ELSE params_loop(toks, comma.cur, ps) :
                   param_type \in {parse_type(toks, colon.cur)} })
    ELSE POk(cur, params)

parse_function(toks, cur) ==
    LET t == current_token(toks, cur)
        open == expect_token(toks, parser_advance(toks, cur), "LeftParen")
    IN  IF t.token_type # "Identifier" THEN PErr("Expected function name")
        ELSE IF open.res # "ok" THEN open ELSE
        The({ IF params.res # "ok" THEN params ELSE
              LET close == expect_token(toks, params.cur, "RightParen")
                  arrow == match_token(toks, close.cur, "Arrow")
              IN  IF close.res # "ok" THEN close ELSE
                  The({ IF return_type.res # "ok" THEN return_type ELSE
                        The({ IF body.res # "ok" THEN body
                              ELSE POk(body.cur,
                                     Function(Name(t.text), params.node,
                                              return_type.node, body.node)) :
                              body \in {braced_block(toks, return_type.cur)} }) :
                        return_type \in {IF arrow.hit
                                         THEN parse_type(toks, arrow.cur)
                                         ELSE POk(arrow.cur, NoType)} }) :
              params \in {params_loop(toks, open.cur, <<>>)} })

RECURSIVE import_loop_no_end_test(_, _)
import_loop_no_end_test(toks, cur) ==
    LET m == match_token(toks, cur, "Semicolon")
    IN  IF m.hit THEN POk(m.cur, NoNode)
        ELSE IF parser_advance(toks, cur) = cur THEN PHang
        ELSE import_loop_no_end_test(toks, parser_advance(toks, cur))

\* while !self.is_at_end() && !self.match_token(Semicolon) { self.advance(); }
RECURSIVE import_loop(_, _)
import_loop(toks, cur) ==
    IF parser_is_at_end(toks, cur) THEN POk(cur, NoNode)
    ELSE LET m == match_token(toks, cur, "Semicolon")
         IN  IF m.hit THEN POk(m.cur, NoNode)
             ELSE IF parser_advance(toks, cur) = cur THEN PHang
             ELSE import_loop(toks, parser_advance(toks, cur))

parse_import(toks, cur) == import_loop(toks, cur)

\* Ok(None) is POk with NoNode.
parse_top_level(toks, cur) ==
    LET import == match_token(toks, cur, "Import")
        fn == match_token(toks, cur, "Fn")
    IN  IF import.hit THEN parse_import(toks, import.cur)
        ELSE IF fn.hit THEN parse_function(toks, fn.cur)
        ELSE [res |-> "err", msg |-> "Unexpected token at top level",
              got |-> current_token(toks, cur)]

parse_module_declaration(toks, cur) ==
    LET m == match_token(toks, cur, "Module")
        t == current_token(toks, m.cur)
    IN  IF m.hit
        THEN IF t.token_type = "Identifier"
             THEN LET s == expect_token(toks, parser_advance(toks, m.cur),
                                        "Semicolon")
                  IN  IF s.res # "ok" THEN s ELSE POk(s.cur, Name(t.text))
             ELSE PErr("Expected module name")
        ELSE POk(cur, "main")

NewParser == [current |-> 0, module_name |-> "", items |-> <<>>,
              result |-> [kind |-> "Start"]]

ParseFailure(r) ==
    IF r.res = "hang" THEN [kind |-> "Hang"]
    ELSE [kind |-> "Err", error |-> [r EXCEPT !.res = "ParseError"]]

\* One step of parse on the state st = [current, module_name, items, result]:
\* the module declaration first, then one iteration of `while
\* !self.is_at_end()` or, at the end-of-input token, the return of the Module.
parse_step(toks, st) ==
    IF st.result.kind = "Start"
    THEN LET m == parse_module_declaration(toks, st.current)
         IN  IF m.res # "ok" THEN [st EXCEPT !.result = ParseFailure(m)]
             ELSE [st EXCEPT !.current = m.cur, !.module_name = m.node,
                             !.result = [kind |-> "Running"]]
    ELSE IF parser_is_at_end(toks, st.current)
    THEN [st EXCEPT !.result = [kind |-> "Ok",
                                node |-> Module(st.module_name, st.items)]]
    ELSE The({ IF item.res # "ok" THEN [st EXCEPT !.result = ParseFailure(item)]
               ELSE IF item.cur = st.current
               THEN [st EXCEPT !.result = [kind |-> "Hang"]]
               ELSE [st EXCEPT !.current = item.cur,
                               !.items = IF item.node = NoNode THEN @
                                         ELSE Append(@, item.node)] :
               item \in {parse_top_level(toks, st.current)} })

RECURSIVE top_level_loop(_, _)
top_level_loop(toks, st) ==
    IF st.result.kind \notin {"Start", "Running"} THEN st
    ELSE top_level_loop(toks, parse_step(toks, st))

\* Parser::new(tokens).parse()
parse(toks) == top_level_loop(toks, NewParser).result

(***************************************************************************)
(* Semantic analyzer (semantic.rs).  symbol_table is a sequence of scopes, *)
(* the innermost last; a scope is a function from names to SymbolInfo.     *)
(***************************************************************************)
EmptyScope == [n \in {} |-> NoType]

SymbolInfo(symbol_type, mutable) ==
    [symbol_type |-> symbol_type, mutable |-> mutable]

enter_scope(table) == Append(table, EmptyScope)

\* A variant that leaves the innermost scope on the stack.
exit_scope_keep(table) == table

exit_scope(table) ==
    IF table = <<>> THEN table ELSE SubSeq(table, 1, Len(table) - 1)

SemOk(type) == [ok |-> TRUE, type |-> type]

SemErr(msg) == [ok |-> FALSE, msg |-> msg]

\* A variant that rebinds a name the innermost scope already holds.
declare_variable_overwrite(table, name, var_type, mutable) ==
    IF table = <<>> THEN [ok |-> TRUE, table |-> table]
    ELSE [ok |-> TRUE,
          table |-> [table EXCEPT ![Len(table)] =
                        (name :> SymbolInfo(var_type, mutable)) @@ @]]

declare_variable(table, name, var_type, mutable) ==
    IF table = <<>> THEN [ok |-> TRUE, table |-> table]
    ELSE IF name \in DOMAIN table[Len(table)]
    THEN [ok |-> FALSE, table |-> table,
          msg |-> "Variable already declared in this scope"]
    ELSE [ok |-> TRUE,
          table |-> [table EXCEPT ![Len(table)] =
                        (name :> SymbolInfo(var_type, mutable)) @@ @]]

\* A variant that searches the scopes outermost first.
lookup_variable_outermost(table, name) ==
    LET hits == {i \in 1..Len(table) : name \in DOMAIN table[i]}
    IN  IF hits = {} THEN [found |-> FALSE]
        ELSE [found |-> TRUE,
              info |-> table[CHOOSE i \in hits : \A j \in hits : i <= j][name]]

\* for scope in self.symbol_table.iter().rev()
lookup_variable(table, name) ==
    LET hits == {i \in 1..Len(table) : name \in DOMAIN table[i]}
    IN  IF hits = {} THEN [found |-> FALSE]
        ELSE [found |-> TRUE,
              info |-> table[CHOOSE i \in hits : \A j \in hits : j <= i][name]]

\* A variant that takes any two types as compatible.
types_compatible_lax(t1, t2) == TRUE

types_compatible(t1, t2) == t1 = t2

LiteralType ==
    "Int" :> Ty("I32") @@ "Float" :> Ty("F64") @@ "String" :> Ty("Str") @@
    "Bool" :> Ty("Bool") @@ "Char" :> Ty("Char")

ComparisonOps == {"==", "!=", "<", "<=", ">", ">=", "&&", "||"}

\* The first result that is not ok in a sequence of results (the `?` of a
\* loop over children), or ok(t) when all are ok.
FirstFailure(results, t) ==
    LET bad == {i \in 1..Len(results) : ~results[i].ok}
    IN  IF bad = {} THEN SemOk(t)
        ELSE results[CHOOSE i \in bad : \A j \in bad : i <= j]

\* A result type that is the operand type for every operator.
binary_result_operand(op, lt) == lt

\* match op.as_str() { "==" | .. | "||" => Type::Bool, _ => lt }
binary_result_type(op, lt) == IF op \in ComparisonOps THEN Ty("Bool") ELSE lt

\* visit on the expression variants: the inferred type (Some or NoType) or
\* the SemanticError.  Expressions never change the symbol table.
RECURSIVE visit_expression(_, _)
visit_expression(node, table) ==
    CASE node.kind = "Literal" -> SemOk(LiteralType[node.lit])
      [] node.kind = "Identifier" ->
            LET r == lookup_variable(table, node.name)
            IN  IF r.found THEN SemOk(r.info.symbol_type)
                ELSE SemErr("Undefined variable")
      [] node.kind = "BinaryOp" ->
            LET l == visit_expression(node.left, table)
                r == visit_expression(node.right, table)
            IN  IF ~l.ok THEN l
                ELSE IF ~r.ok THEN r
                ELSE IF l.type # NoType /\ r.type # NoType
                THEN IF ~types_compatible(l.type, r.type)
                     THEN SemErr("Type mismatch in binary operation")
                     ELSE SemOk(binary_result_type(node.op, l.type))
                ELSE SemOk(NoType)
      [] node.kind = "UnaryOp" -> visit_expression(node.operand, table)
      [] node.kind = "FunctionCall" ->
            FirstFailure([i \in 1..Len(node.args) |->
                            visit_expression(node.args[i], table)], Ty("I32"))
      [] node.kind = "ArrayLiteral" ->
            IF node.elements = <<>> THEN SemOk(ArrayTy(Ty("I32"), 0))
            ELSE LET first == visit_expression(node.elements[1], table)
                 IN  IF ~first.ok THEN first
                     ELSE IF first.type = NoType THEN SemOk(NoType)
                     ELSE FirstFailure(
                            [i \in 1..(Len(node.elements) - 1) |->
                               LET e == visit_expression(node.elements[i + 1], table)
                               IN  IF e.ok /\ e.type # NoType
                                      /\ ~types_compatible(first.type, e.type)
                                   THEN SemErr("Array elements must have same type")
                                   ELSE e],
                            ArrayTy(first.type, Len(node.elements)))
      [] node.kind = "ArrayRepeat" ->
            LET e == visit_expression(node.value, table)
            IN  IF ~e.ok THEN e
                ELSE IF e.type # NoType THEN SemOk(ArrayTy(e.type, node.count))
                ELSE SemOk(NoType)
      [] node.kind = "ArrayIndex" ->
            LET a == visit_expression(node.array, table)
                i == visit_expression(node.index, table)
            IN  IF ~a.ok THEN a
                ELSE IF ~i.ok THEN i
                ELSE IF a.type.tag = "Array" THEN SemOk(a.type.elem)
                ELSE SemErr("Can only index arrays")

\* Continuation items of the walk: what the recursion of visit still has to
\* do after the node at the head, in order.
VisitItem(node) == [op |-> "visit", node |-> node]

Visits(nodes) == [i \in 1..Len(nodes) |-> VisitItem(nodes[i])]

ExitScopeItem == [op |-> "exit_scope"]

EnterScopeItem == [op |-> "enter_scope"]

EndFunctionItem(old_return) == [op |-> "end_function", old_return |-> old_return]

\* Err(..)?: the walk stops where it is; no scope is popped on the way out.
SemFail(st, table, msg) ==
    [st EXCEPT !.symbol_table = table, !.agenda = <<>>,
               !.result = [kind |-> "Err", msg |-> msg]]

SemContinue(st, table, items) ==
    [st EXCEPT !.symbol_table = table, !.agenda = items \o Tail(st.agenda)]

RECURSIVE declare_params(_, _, _)
declare_params(table, params, i) ==
    IF i > Len(params) THEN [ok |-> TRUE, table |-> table]
    ELSE LET d == declare_variable(table, params[i].name, params[i].type, FALSE)
         IN  IF d.ok THEN declare_params(d.table, params, i + 1) ELSE d

\* A condition is rejected when its type is known and is not Bool.
condition_ok(c) == c.type = NoType \/ c.type = Ty("Bool")

\* visit on one node, st = [symbol_table, current_function_return, agenda,
\* result] with the node's item at the head of the agenda.
visit(node, st) ==
    LET table == st.symbol_table
    IN
    CASE node.kind = "Module" -> SemContinue(st, table, Visits(node.items))
      [] node.kind = "Function" ->
            LET d == declare_params(enter_scope(table), node.params, 1)
                st1 == [st EXCEPT !.current_function_return = node.return_type]
            IN  IF ~d.ok THEN SemFail(st1, d.table, d.msg)
                ELSE SemContinue(st1, d.table,
                        Visits(node.body)
                        \o <<EndFunctionItem(st.current_function_return)>>)
      [] node.kind = "VariableDecl" ->
            LET v == IF node.value # NoNode
                     THEN visit_expression(node.value, table)
                     ELSE SemOk(NoType)
            IN  IF ~v.ok THEN SemFail(st, table, v.msg)
                ELSE IF node.var_type # NoType /\ v.type # NoType
                        /\ ~types_compatible(node.var_type, v.type)
                THEN SemFail(st, table, "Type mismatch")
                ELSE IF node.var_type = NoType /\ v.type = NoType
                THEN SemFail(st, table, "Cannot infer type")
                ELSE LET final_type == IF node.var_type # NoType
                                       THEN node.var_type ELSE v.type
                         d == declare_variable(table, node.name, final_type,
                                               node.mutable)
                     IN  IF d.ok THEN SemContinue(st, d.table, <<>>)
                         ELSE SemFail(st, table, d.msg)
      [] node.kind = "ConstDecl" ->
            LET v == visit_expression(node.value, table)
            IN  IF ~v.ok THEN SemFail(st, table, v.msg)
                ELSE IF v.type # NoType
                        /\ ~types_compatible(node.const_type, v.type)
                THEN SemFail(st, table, "Constant type mismatch")
                ELSE LET d == declare_variable(table, node.name,
                                               node.const_type, FALSE)
                     IN  IF d.ok THEN SemContinue(st, d.table, <<>>)
                         ELSE SemFail(st, table, d.msg)
      [] node.kind = "Return" ->
            IF node.value = NoNode THEN SemContinue(st, table, <<>>)
            ELSE LET v == visit_expression(node.value, table)
                 IN  IF ~v.ok THEN SemFail(st, table, v.msg)
                     ELSE IF st.current_function_return # NoType
                             /\ v.type # NoType
                             /\ ~types_compatible(st.current_function_return, v.type)
                     THEN SemFail(st, table, "Return type mismatch")
                     ELSE SemContinue(st, table, <<>>)
      [] node.kind \in ExpressionKinds ->
            LET v == visit_expression(node, table)
            IN  IF v.ok THEN SemContinue(st, table, <<>>)
                ELSE SemFail(st, table, v.msg)
      [] node.kind = "If" ->
            LET c == visit_expression(node.condition, table)
            IN  IF ~c.ok THEN SemFail(st, table, c.msg)
                ELSE IF ~condition_ok(c)
                THEN SemFail(st, table, "Condition must be boolean")
                ELSE SemContinue(st, enter_scope(table),
                        Visits(node.then_branch) \o <<ExitScopeItem>>
                        \o (IF node.else_branch.some
                            THEN <<EnterScopeItem>>
                                 \o Visits(node.else_branch.body)
                                 \o <<ExitScopeItem>>
                            ELSE <<>>))
      [] node.kind = "While" ->
            LET c == visit_expression(node.condition, table)
            IN  IF ~c.ok THEN SemFail(st, table, c.msg)
                ELSE IF ~condition_ok(c)
                THEN SemFail(st, table, "Condition must be boolean")
                ELSE SemContinue(st, enter_scope(table),
                        Visits(node.body) \o <<ExitScopeItem>>)
      [] node.kind = "For" ->
            LET s == visit_expression(node.range_start, table)
                e == visit_expression(node.range_end, table)
                d == declare_variable(enter_scope(table), node.iterator,
                                      Ty("I32"), FALSE)
            IN  IF ~s.ok THEN SemFail(st, table, s.msg)
                ELSE IF ~e.ok THEN SemFail(st, table, e.msg)
                ELSE IF ~d.ok THEN SemFail(st, d.table, d.msg)
                ELSE SemContinue(st, d.table,
                        Visits(node.body) \o <<ExitScopeItem>>)
      [] node.kind = "Loop" ->
            SemContinue(st, enter_scope(table),
                        Visits(node.body) \o <<ExitScopeItem>>)
      [] node.kind \in {"Break", "Continue"} -> SemContinue(st, table, <<>>)
      [] node.kind = "Assignment" ->
            LET r == lookup_variable(table, node.target)
                v == visit_expression(node.value, table)
            IN  IF ~r.found THEN SemFail(st, table, "Undefined variable")
                ELSE IF ~r.info.mutable
                THEN SemFail(st, table, "Cannot assign to immutable variable")
                ELSE IF ~v.ok THEN SemFail(st, table, v.msg)
                ELSE IF v.type # NoType
                        /\ ~types_compatible(r.info.symbol_type, v.type)
                THEN SemFail(st, table, "Type mismatch in assignment")
                ELSE SemContinue(st, table, <<>>)

\* One step of the walk: the item at the head of the agenda, or the return
\* of analyze once nothing is left.
sem_step(st) ==
    IF st.agenda = <<>> THEN [st EXCEPT !.result = [kind |-> "Ok"]]
    ELSE LET item == Head(st.agenda)
         IN  CASE item.op = "visit" -> visit(item.node, st)
               [] item.op = "enter_scope" ->
                    SemContinue(st, enter_scope(st.symbol_table), <<>>)
               [] item.op = "exit_scope" ->
                    SemContinue(st, exit_scope(st.symbol_table), <<>>)
               [] item.op = "end_function" ->
                    SemContinue(
                        [st EXCEPT !.current_function_return = item.old_return],
                        exit_scope(st.symbol_table), <<>>)

\* SemanticAnalyzer::new() about to analyze(ast).
NewAnalyzer(ast) ==
    [symbol_table |-> <<EmptyScope>>, current_function_return |-> NoType,
     agenda |-> <<VisitItem(ast)>>, result |-> [kind |-> "Running"]]

RECURSIVE sem_loop(_)
sem_loop(st) == IF st.result.kind # "Running" THEN st ELSE sem_loop(sem_step(st))

analyze(ast) == sem_loop(NewAnalyzer(ast)).result

(***************************************************************************)
(* Code generator (codegen.rs).  The emitted text is a sequence of lines:  *)
(* a label definition, a jump, an instruction with operands, or a line     *)
(* whose text is fixed.  variables maps a name to its offset below rbp.    *)
(***************************************************************************)
Label(name) == [op |-> "label", arg |-> name]

Jump(cc, label) == [op |-> cc, arg |-> label]

Fixed(text) == [op |-> text]

MovImm(reg, n) == [op |-> "mov imm", reg |-> reg, imm |-> n]

Load(reg, offset) == [op |-> "load", reg |-> reg, offset |-> offset]

Store(offset, reg) == [op |-> "store", offset |-> offset, reg |-> reg]

Lea(reg, index) == [op |-> "lea", reg |-> reg, index |-> index]

SubRsp(n) == [op |-> "sub rsp", imm |-> n]

NoVariables == [n \in {} |-> 0]

\* CodeGenerator::new followed by the resets at the top of to_assembly.
NewCodeGenerator(ast) ==
    [label_counter |-> 0, string_literals |-> <<>>, variables |-> NoVariables,
     stack_offset |-> 0, loop_stack |-> <<>>, code |-> <<>>,
     agenda |-> <<[op |-> "node", node |-> ast]>>,
     result |-> [kind |-> "Running"]]

next_label(cg) ==
    [label |-> "L" \o ToString(cg.label_counter),
     cg |-> [cg EXCEPT !.label_counter = @ + 1]]

Emit(cg, lines) == [cg EXCEPT !.code = @ \o lines]

\* A prologue that reserves nothing for the locals.
calculate_no_stack_space(body) == 0

RECURSIVE calculate_stack_space(_)
calculate_stack_space(body) ==
    LET Slots(stmt) ==
            CASE stmt.kind \in {"VariableDecl", "ConstDecl"} -> 1
              [] stmt.kind = "For" -> 1 + calculate_stack_space(stmt.body)
              [] stmt.kind \in {"While", "Loop"} -> calculate_stack_space(stmt.body)
              [] stmt.kind = "If" ->
                    calculate_stack_space(stmt.then_branch)
                    + (IF stmt.else_branch.some
                       THEN calculate_stack_space(stmt.else_branch.body) ELSE 0)
              [] OTHER -> 0
        Sum[i \in 0..Len(body)] ==
            IF i = 0 THEN 0 ELSE Sum[i - 1] + Slots(body[i])
    IN  ((Sum[Len(body)] * 8 + 15) \div 16) * 16

BinaryOpLines ==
    [op \in {"+", "-", "*", "/", "%", "==", "!=", "<", "<=", ">", ">=", "&&", "||"} |->
        CASE op = "+" -> <<Fixed("add rax, rcx")>>
          [] op = "-" -> <<Fixed("sub rax, rcx")>>
          [] op = "*" -> <<Fixed("imul rax, rcx")>>
          [] op = "/" -> <<Fixed("xor rdx, rdx"), Fixed("idiv rcx")>>
          [] op = "%" -> <<Fixed("xor rdx, rdx"), Fixed("idiv rcx"),
                           Fixed("mov rax, rdx")>>
          [] op = "==" -> <<Fixed("cmp rax, rcx"), Fixed("sete al"),
                            Fixed("movzx rax, al")>>
          [] op = "!=" -> <<Fixed("cmp rax, rcx"), Fixed("setne al"),
                            Fixed("movzx rax, al")>>
          [] op = "<" -> <<Fixed("cmp rax, rcx"), Fixed("setl al"),
                           Fixed("movzx rax, al")>>
          [] op = "<=" -> <<Fixed("cmp rax, rcx"), Fixed("setle al"),
                            Fixed("movzx rax, al")>>
          [] op = ">" -> <<Fixed("cmp rax, rcx"), Fixed("setg al"),
                           Fixed("movzx rax, al")>>
          [] op = ">=" -> <<Fixed("cmp rax, rcx"), Fixed("setge al"),
                            Fixed("movzx rax, al")>>
          [] op = "&&" -> <<Fixed("and rax, rcx")>>
          [] op = "||" -> <<Fixed("or rax, rcx")>>]

\* A pool that keeps one entry per distinct string.
push_string_literal_once(cg, s) ==
    IF \E i \in DOMAIN cg.string_literals : cg.string_literals[i] = s THEN cg
    ELSE [cg EXCEPT !.string_literals = Append(@, s)]

\* self.string_literals.push(..)
push_string_literal(cg, s) == [cg EXCEPT !.string_literals = Append(@, s)]

\* generate_expression: the generator after the lines of the expression.
RECURSIVE generate_expression(_, _)
generate_expression(node, cg) ==
    CASE node.kind = "Literal" ->
            CASE node.lit = "Int" -> Emit(cg, <<MovImm("rax", node.int)>>)
              [] node.lit = "Bool" ->
                    Emit(cg, <<MovImm("rax", I64(IF node.bool THEN 1 ELSE 0))>>)
              [] node.lit = "String" ->
                    Emit(push_string_literal(cg, node.str),
                         <<Lea("rax", Len(cg.string_literals))>>)
              [] OTHER -> cg
      [] node.kind = "Identifier" ->
            IF node.name \in DOMAIN cg.variables
            THEN Emit(cg, <<Load("rax", cg.variables[node.name])>>)
            ELSE cg
      [] node.kind = "BinaryOp" ->
            LET r == Emit(generate_expression(node.right, cg), <<Fixed("push rax")>>)
                l == Emit(generate_expression(node.left, r), <<Fixed("pop rcx")>>)
            IN  IF node.op \in DOMAIN BinaryOpLines
                THEN Emit(l, BinaryOpLines[node.op]) ELSE l
      [] node.kind = "UnaryOp" ->
            LET o == generate_expression(node.operand, cg)
            IN  CASE node.op = "-" -> Emit(o, <<Fixed("neg rax")>>)
                  [] node.op = "!" ->
                        Emit(o, <<Fixed("test rax, rax"), Fixed("setz al"),
                                  Fixed("movzx rax, al")>>)
                  [] OTHER -> o
      [] node.kind = "FunctionCall" ->
            IF node.name = "print" /\ node.args # <<>>
            THEN LET a == node.args[1]
                     arg == IF a.kind = "Literal" /\ a.lit = "String"
                            THEN Emit(push_string_literal(cg, a.str \o "\n"),
                                      <<Lea("rcx", Len(cg.string_literals))>>)
                            ELSE Emit(generate_expression(a, cg),
                                      <<Fixed("mov rcx, rax")>>)
                 IN  Emit(arg, <<SubRsp(32), Fixed("call printf"),
                                 Fixed("add rsp, 32")>>)
            ELSE cg
      [] OTHER -> cg

\* Continuation items of the generator: nodes and statements still to be
\* generated and what the enclosing statement emits after its body.
NodeItem(node) == [op |-> "node", node |-> node]

StmtItem(node) == [op |-> "stmt", node |-> node]

Nodes(items) == [i \in 1..Len(items) |-> NodeItem(items[i])]

Stmts(body) == [i \in 1..Len(body) |-> StmtItem(body[i])]

EmitItem(lines) == [op |-> "emit", code |-> lines]

EndLoopItem(lines) == [op |-> "end_loop", code |-> lines]

EndForItem(lines) == [op |-> "end_for", code |-> lines]

EndFunctionBodyItem(body) == [op |-> "end_function", body |-> body]

GenContinue(cg, items) == [cg EXCEPT !.agenda = items \o Tail(@)]

\* A map that keeps the slot of the declaration it already holds.
InsertVariableOnce(cg, name) ==
    [cg EXCEPT !.stack_offset = @ + 8,
               !.variables = @ @@ (name :> (cg.stack_offset + 8))]

InsertVariable(cg, name) ==
    [cg EXCEPT !.stack_offset = @ + 8,
               !.variables = (name :> (cg.stack_offset + 8)) @@ @]

generate_assembly_node(node, cg) ==
    CASE node.kind = "Module" -> GenContinue(cg, Nodes(node.items))
      [] node.kind = "Function" ->
            LET local_space == calculate_stack_space(node.body)
                total_space == ((local_space + 32 + 15) \div 16) * 16
                entry == Emit([cg EXCEPT !.variables = NoVariables,
                                         !.stack_offset = 0],
                              <<Label(node.name), Fixed("push rbp"),
                                Fixed("mov rbp, rsp")>>
                              \o (IF total_space > 0
                                  THEN <<SubRsp(total_space)>> ELSE <<>>))
            IN  GenContinue(entry, Stmts(node.body)
                                   \o <<EndFunctionBodyItem(node.body)>>)
      [] OTHER -> GenContinue(cg, <<>>)

generate_statement(node, cg) ==
    CASE node.kind = "VariableDecl" ->
            IF node.value # NoNode
            THEN LET v == InsertVariable(generate_expression(node.value, cg),
                                         node.name)
                 IN  GenContinue(Emit(v, <<Store(v.stack_offset, "rax")>>), <<>>)
            ELSE GenContinue(InsertVariable(cg, node.name), <<>>)
      [] node.kind = "ConstDecl" ->
            LET v == InsertVariable(generate_expression(node.value, cg), node.name)
            IN  GenContinue(Emit(v, <<Store(v.stack_offset, "rax")>>), <<>>)
      [] node.kind = "Return" ->
            LET v == IF node.value # NoNode
                     THEN generate_expression(node.value, cg)
                     ELSE Emit(cg, <<Fixed("xor eax, eax")>>)
            IN  GenContinue(Emit(v, <<Fixed("leave"), Fixed("ret")>>), <<>>)
      [] node.kind = "Assignment" ->
            LET v == generate_expression(node.value, cg)
            IN  GenContinue(
                    IF node.target \in DOMAIN v.variables
                    THEN Emit(v, <<Store(v.variables[node.target], "rax")>>)
                    ELSE v, <<>>)
      [] node.kind = "If" ->
            LET else_label == next_label(cg)
                end_label == next_label(else_label.cg)
                c == Emit(generate_expression(node.condition, end_label.cg),
                          <<Fixed("test rax, rax"), Jump("jz", else_label.label)>>)
            IN  GenContinue(c,
                    Stmts(node.then_branch)
                    \o <<EmitItem(<<Jump("jmp", end_label.label),
                                    Label(else_label.label)>>)>>
                    \o (IF node.else_branch.some
                        THEN Stmts(node.else_branch.body) ELSE <<>>)
                    \o <<EmitItem(<<Label(end_label.label)>>)>>)
      [] node.kind = "While" ->
            LET start_label == next_label(cg)
                end_label == next_label(start_label.cg)
                pushed == [end_label.cg EXCEPT !.loop_stack =
                              Append(@, <<end_label.label, start_label.label>>)]
                c == Emit(generate_expression(node.condition,
                              Emit(pushed, <<Label(start_label.label)>>)),
                          <<Fixed("test rax, rax"), Jump("jz", end_label.label)>>)
            IN  GenContinue(c,
                    Stmts(node.body)
                    \o <<EndLoopItem(<<Jump("jmp", start_label.label),
                                       Label(end_label.label)>>)>>)
      [] node.kind = "For" ->
            LET start_label == next_label(cg)
                end_label == next_label(start_label.cg)
                s == InsertVariable(
                        generate_expression(node.range_start, end_label.cg),
                        node.iterator)
                e == generate_expression(node.range_end,
                        Emit(s, <<Store(s.stack_offset, "rax")>>))
                end_offset == e.stack_offset + 8
                iter_offset == e.variables[node.iterator]
                head == Emit([e EXCEPT !.stack_offset = end_offset,
                                       !.loop_stack = Append(@,
                                            <<end_label.label, start_label.label>>)],
                             <<Store(end_offset, "rax"),
                               Label(start_label.label),
                               Load("rax", iter_offset),
                               Load("rcx", end_offset),
                               Fixed("cmp rax, rcx"),
                               Jump(IF node.inclusive THEN "jg" ELSE "jge",
                                    end_label.label)>>)
            IN  GenContinue(head,
                    Stmts(node.body)
                    \o <<EndForItem(<<Load("rax", iter_offset),
                                      Fixed("inc rax"),
                                      Store(iter_offset, "rax"),
                                      Jump("jmp", start_label.label),
                                      Label(end_label.label)>>)>>)
      [] node.kind = "Loop" ->
            LET start_label == next_label(cg)
                end_label == next_label(start_label.cg)
                pushed == [end_label.cg EXCEPT !.loop_stack =
                              Append(@, <<end_label.label, start_label.label>>)]
            IN  GenContinue(Emit(pushed, <<Label(start_label.label)>>),
                    Stmts(node.body)
                    \o <<EndLoopItem(<<Jump("jmp", start_label.label),
                                       Label(end_label.label)>>)>>)
      [] node.kind = "Break" ->
            GenContinue(
                IF cg.loop_stack # <<>>
                THEN Emit(cg, <<Jump("jmp", cg.loop_stack[Len(cg.loop_stack)][1])>>)
                ELSE cg, <<>>)
      [] node.kind = "Continue" ->
            GenContinue(
                IF cg.loop_stack # <<>>
                THEN Emit(cg, <<Jump("jmp", cg.loop_stack[Len(cg.loop_stack)][2])>>)
                ELSE cg, <<>>)
      [] OTHER -> GenContinue(generate_expression(node, cg), <<>>)

\* A loop end that leaves the loop stack as it is.
pop_loop_kept(cg) == cg

\* self.loop_stack.pop()
pop_loop(cg) ==
    [cg EXCEPT !.loop_stack = SubSeq(@, 1, Len(@) - 1)]

\* The text to_assembly returns: the data section with one line per string
\* literal, the header of the text section, the generated code.
Assemble(cg) ==
    <<Fixed("section .data")>>
    \o [i \in 1..Len(cg.string_literals) |->
            [op |-> "db", index |-> i - 1, str |-> cg.string_literals[i]]]
    \o <<Fixed("section .bss"), Fixed("section .text"), Fixed("global main"),
         Fixed("extern ExitProcess"), Fixed("extern printf")>>
    \o cg.code

\* A search for return statements that descends into nested bodies.
RECURSIVE has_return_anywhere(_)
has_return_anywhere(body) ==
    \E i \in 1..Len(body) :
        \/ body[i].kind = "Return"
        \/ body[i].kind \in {"While", "Loop", "For"}
              /\ has_return_anywhere(body[i].body)
        \/ body[i].kind = "If"
              /\ \/ has_return_anywhere(body[i].then_branch)
                 \/ body[i].else_branch.some
                      /\ has_return_anywhere(body[i].else_branch.body)

\* body.iter().any(|s| matches!(s, AstNode::Return { .. }))
has_return(body) == \E i \in 1..Len(body) : body[i].kind = "Return"

\* One step of the generator: the item at the head of the agenda, or the
\* return of to_assembly once nothing is left.
gen_step(cg) ==
    IF cg.agenda = <<>>
    THEN [cg EXCEPT !.result = [kind |-> "Ok", asm |-> Assemble(cg)]]
    ELSE LET item == Head(cg.agenda)
         IN  CASE item.op = "node" -> generate_assembly_node(item.node, cg)
               [] item.op = "stmt" -> generate_statement(item.node, cg)
               [] item.op = "emit" -> GenContinue(Emit(cg, item.code), <<>>)
               [] item.op = "end_loop" ->
                    GenContinue(pop_loop(Emit(cg, item.code)), <<>>)
               [] item.op = "end_for" ->
                    GenContinue(
                        [pop_loop(Emit(cg, item.code)) EXCEPT !.stack_offset = @ - 8],
                        <<>>)
               [] item.op = "end_function" ->
                    GenContinue(
                        IF has_return(item.body)
                        THEN cg
                        ELSE Emit(cg, <<Fixed("xor eax, eax"), Fixed("leave"),
                                        Fixed("ret")>>),
                        <<>>)

RECURSIVE gen_loop(_)
gen_loop(cg) == IF cg.result.kind # "Running" THEN cg ELSE gen_loop(gen_step(cg))

to_assembly(ast) == gen_loop(NewCodeGenerator(ast)).result

(***************************************************************************)
(* The lexer as a state machine: one action per outcome of an iteration of *)
(* the loop of tokenize.                                                   *)
(***************************************************************************)
SeqsUpTo(S, n) == UNION {[1..k -> S] : k \in 0..n}

CommentAlphabet == {"/", "*", NL, " ", "a"}

OperatorAlphabet == {"-", "=", "!", "<", ">", "&", "|", ":", "+", "a", " ", "#"}

LiteralAlphabet == {DQ, SQ, BS, "n", "a", "/", "*"}

NumberAlphabet == {".", "5", "a"}

\* string literals that span lines
MultilineAlphabet == {DQ, NL, "a"}

\* i64::MAX + 1
OverI64Digits == [MaxI64Digits EXCEPT ![19] = "8"]

DigitRuns == {<<"1">>, <<"1", "2">>, MaxI64Digits, OverI64Digits}

NumberInputs ==
    {run \o rest : run \in DigitRuns,
                   rest \in SeqsUpTo(NumberAlphabet, MaxNumLen)}

LexInputs ==
    SeqsUpTo(CommentAlphabet, MaxCommentLen)
    \cup SeqsUpTo(OperatorAlphabet, MaxOpLen)
    \cup SeqsUpTo(LiteralAlphabet, MaxLitLen)
    \cup NumberInputs
    \cup SeqsUpTo(MultilineAlphabet, MaxLitLen)

LexState ==
    [L |-> [position |-> position, line |-> line, column |-> column],
     tokens |-> tokens, result |-> lexResult]

\* The stages a specification leaves out stay idle.
SemIdle ==
    /\ module = NoNode
    /\ symbol_table = <<>>
    /\ current_function_return = NoType
    /\ agenda = <<>>
    /\ semResult = [kind |-> "Idle"]

LexIdle ==
    /\ input = <<>>
    /\ position = 0
    /\ line = 1
    /\ column = 1
    /\ tokens = <<>>
    /\ lexResult = [kind |-> "Idle"]

GenIdle ==
    /\ label_counter = 0
    /\ string_literals = <<>>
    /\ variables = NoVariables
    /\ stack_offset = 0
    /\ loop_stack = <<>>
    /\ code = <<>>
    /\ genAgenda = <<>>
    /\ genResult = [kind |-> "Idle"]

NoFlags == [zero |-> FALSE, less |-> FALSE]

RunIdle ==
    /\ pc = 0
    /\ registers = [r \in {} |-> I64(0)]
    /\ flags = NoFlags
    /\ memory = [o \in {} |-> I64(0)]
    /\ stack = <<>>
    /\ calls = <<>>
    /\ runResult = [kind |-> "Idle"]

ParseIdle ==
    /\ parser_tokens = <<>>
    /\ current = 0
    /\ module_name = ""
    /\ parsed_items = <<>>
    /\ parseResult = [kind |-> "Idle"]

CompileIdle ==
    /\ emit_ir = FALSE
    /\ stage = <<>>
    /\ stdout = <<>>
    /\ files = <<>>
    /\ compileResult = [kind |-> "Idle"]

LaterIdle ==
    /\ ParseIdle
    /\ CompileIdle
    /\ returned = <<>>

LexInit ==
    /\ input \in LexInputs
    /\ position = 0
    /\ line = 1
    /\ column = 1
    /\ tokens = <<>>
    /\ lexResult = [kind |-> "Running"]
    /\ SemIdle
    /\ GenIdle
    /\ RunIdle
    /\ LaterIdle

LexApply(st) ==
    /\ position' = st.L.position
    /\ line' = st.L.line
    /\ column' = st.L.column
    /\ tokens' = st.tokens
    /\ lexResult' = st.result
    /\ UNCHANGED <<input, semVars, genVars, runVars, laterVars>>

TokenizeToken ==
    /\ lexResult.kind = "Running"
    /\ LET st == tokenize_step(input, LexState)
       IN  st.result.kind = "Running" /\ LexApply(st)

TokenizeEof ==
    /\ lexResult.kind = "Running"
    /\ LET st == tokenize_step(input, LexState)
       IN  st.result.kind = "Ok" /\ LexApply(st)

TokenizeError ==
    /\ lexResult.kind = "Running"
    /\ LET st == tokenize_step(input, LexState)
       IN  st.result.kind = "Err" /\ LexApply(st)

TokenizePanic ==
    /\ lexResult.kind = "Running"
    /\ LET st == tokenize_step(input, LexState)
       IN  st.result.kind = "Panic" /\ LexApply(st)

LexNext == TokenizeToken \/ TokenizeEof \/ TokenizeError \/ TokenizePanic

SpecLex == LexInit /\ [][LexNext]_vars

(***************************************************************************)
(* Modules handed to the analyzer: every tree of at most MaxNodes function *)
(* and statement nodes that a generator G builds from its simple           *)
(* statements, conditions and block kinds.                                 *)
(***************************************************************************)
\* The statements of exactly k nodes, E[j + 1] being the blocks of exactly j
\* nodes for every j < k.
ExactStatements(G, E, k) ==
    (IF k = 1 THEN G.simple ELSE {})
    \cup (IF "While" \in G.kinds
          THEN {While(c, b) : c \in G.conds, b \in E[k]}
          ELSE {})
    \cup (IF "Loop" \in G.kinds THEN {Loop(b) : b \in E[k]} ELSE {})
    \cup (IF "For" \in G.kinds
          THEN {For(G.iterator, r[1], r[2], r[3], b) : r \in G.ranges, b \in E[k]}
          ELSE {})
    \cup (IF "If" \in G.kinds
          THEN {If(c, t, NoBlock) : c \in G.conds, t \in E[k]}
          ELSE {})
    \cup (IF "IfElse" \in G.kinds
          THEN UNION {{If(c, t, SomeBlock(e)) :
                          c \in G.conds, t \in E[j + 1], e \in E[k - j]} :
                      j \in 0..(k - 1)}
          ELSE {})

\* E[k + 1] is the set of statement lists of exactly k nodes, k \in 0..n.
RECURSIVE ExactBlocks(_, _)
ExactBlocks(G, n) ==
    IF n = 0 THEN <<{<<>>}>>
    ELSE LET E == ExactBlocks(G, n - 1)
         IN  Append(E, UNION {{<<s>> \o b : s \in ExactStatements(G, E, k),
                                             b \in E[n - k + 1]} : k \in 1..n})

\* F[k + 1] is the set of function lists of exactly k nodes, a function being
\* a node itself.
RECURSIVE ExactFunctions(_, _, _)
ExactFunctions(G, E, n) ==
    IF n = 0 THEN <<{<<>>}>>
    ELSE LET F == ExactFunctions(G, E, n - 1)
         IN  Append(F, UNION {{<<Function(f, p, r, b)>> \o rest :
                                  f \in G.fnames, p \in G.params,
                                  r \in G.returns, b \in E[k],
                                  rest \in F[n - k + 1]} : k \in 1..n})

BlocksOf(G, n) == UNION {ExactBlocks(G, n)[k + 1] : k \in 0..n}

\* A function of k nodes has a body of k - 1 nodes: blocks of n nodes are not
\* needed.
ModulesOf(G, n) ==
    LET F == IF n = 0 THEN <<{<<>>}>>
             ELSE ExactFunctions(G, ExactBlocks(G, n - 1), n)
    IN  {Module("main", fs) : fs \in UNION {F[k + 1] : k \in 0..n}}

\* Scoping: declaration and use of one name x in function bodies, if and
\* else branches, for bodies (whose iterator is x too) and loop bodies, with
\* or without a parameter x.
ScopeGen ==
    [simple |-> {VariableDecl("x", NoType, IntLit(1), FALSE),
                 Identifier("x")},
     conds |-> {BoolLit(TRUE)},
     kinds |-> {"IfElse", "For", "Loop"},
     iterator |-> "x",
     ranges |-> {<<IntLit(0), IntLit(1), FALSE>>},
     fnames |-> {"f"},
     params |-> {<<>>, <<Param("x", Ty("I32"))>>},
     returns |-> {NoType}]

\* Mutability: let, let mut, const and assignment of x.
MutGen ==
    [simple |-> {VariableDecl("x", NoType, IntLit(1), FALSE),
                 VariableDecl("x", NoType, IntLit(1), TRUE),
                 ConstDecl("x", Ty("I32"), IntLit(1)),
                 Assignment("x", IntLit(2))},
     conds |-> {BoolLit(TRUE)},
     kinds |-> {"If", "For"},
     iterator |-> "x",
     ranges |-> {<<IntLit(0), IntLit(1), TRUE>>},
     fnames |-> {"f"},
     params |-> {<<>>, <<Param("x", Ty("I32"))>>},
     returns |-> {NoType}]

\* Declaration types: annotation against initializer, neither of them, array
\* values and indexing, typed assignment, while conditions.
DeclTypeGen ==
    [simple |-> {VariableDecl("x", NoType, BoolLit(TRUE), TRUE),
                 VariableDecl("x", Ty("Bool"), IntLit(1), FALSE),
                 VariableDecl("x", NoType, NoNode, FALSE),
                 VariableDecl("x", NoType, ArrayLiteral(<<IntLit(1)>>), FALSE),
                 Assignment("x", IntLit(1)),
                 ArrayIndex(Identifier("x"), IntLit(0))},
     conds |-> {Identifier("x")},
     kinds |-> {"While"},
     iterator |-> "x",
     ranges |-> {},
     fnames |-> {"f"},
     params |-> {<<>>},
     returns |-> {NoType}]

\* Expression types: return against the declared return type, binary
\* operations, array elements, calls, constants.
ExprTypeGen ==
    [simple |-> {VariableDecl("x", NoType, IntLit(1), TRUE),
                 ConstDecl("x", Ty("I32"), BoolLit(TRUE)),
                 Return(Identifier("x")),
                 BinaryOp(Identifier("x"), "==", IntLit(1)),
                 ArrayLiteral(<<IntLit(1), Identifier("x")>>),
                 FunctionCall("g", <<Identifier("x")>>),
                 Break},
     conds |-> {BoolLit(TRUE)},
     kinds |-> {"Loop"},
     iterator |-> "x",
     ranges |-> {},
     fnames |-> {"f"},
     params |-> {<<>>, <<Param("x", Ty("Bool"))>>},
     returns |-> {Ty("Bool")}]

\* Conditions of if and while: a bool literal, an integer literal and a call.
CondGen ==
    [simple |-> {},
     conds |-> {BoolLit(TRUE), IntLit(1), FunctionCall("f", <<>>)},
     kinds |-> {"If", "While"},
     iterator |-> "x",
     ranges |-> {},
     fnames |-> {"f"},
     params |-> {<<>>},
     returns |-> {NoType}]

SemFamilies == {ScopeGen, MutGen, DeclTypeGen, ExprTypeGen, CondGen}

(***************************************************************************)
(* The analyzer as a state machine: one action per AST variant visited,    *)
(* one per scope exit the recursion performs on its way back.              *)
(***************************************************************************)
SemState ==
    [symbol_table |-> symbol_table,
     current_function_return |-> current_function_return,
     agenda |-> agenda, result |-> semResult]

SemApply(st) ==
    /\ symbol_table' = st.symbol_table
    /\ current_function_return' = st.current_function_return
    /\ agenda' = st.agenda
    /\ semResult' = st.result
    /\ UNCHANGED <<module, lexVars, genVars, runVars, laterVars>>

SemInit ==
    /\ \E G \in SemFamilies : module \in ModulesOf(G, MaxNodes)
    /\ symbol_table = NewAnalyzer(module).symbol_table
    /\ current_function_return = NewAnalyzer(module).current_function_return
    /\ agenda = NewAnalyzer(module).agenda
    /\ semResult = NewAnalyzer(module).result
    /\ LexIdle
    /\ GenIdle
    /\ RunIdle
    /\ LaterIdle

\* The next step of the walk visits a node of one of the kinds.
Visiting(kinds) ==
    /\ semResult.kind = "Running"
    /\ agenda # <<>>
    /\ Head(agenda).op = "visit"
    /\ Head(agenda).node.kind \in kinds

Returning(op) ==
    /\ semResult.kind = "Running"
    /\ agenda # <<>>
    /\ Head(agenda).op = op

VisitModule == Visiting({"Module"}) /\ SemApply(sem_step(SemState))

VisitFunction == Visiting({"Function"}) /\ SemApply(sem_step(SemState))

VisitVariableDecl == Visiting({"VariableDecl"}) /\ SemApply(sem_step(SemState))

VisitConstDecl == Visiting({"ConstDecl"}) /\ SemApply(sem_step(SemState))

VisitReturn == Visiting({"Return"}) /\ SemApply(sem_step(SemState))

VisitExpression == Visiting(ExpressionKinds) /\ SemApply(sem_step(SemState))

VisitIf == Visiting({"If"}) /\ SemApply(sem_step(SemState))

VisitWhile == Visiting({"While"}) /\ SemApply(sem_step(SemState))

VisitFor == Visiting({"For"}) /\ SemApply(sem_step(SemState))

VisitLoop == Visiting({"Loop"}) /\ SemApply(sem_step(SemState))

VisitBreakContinue ==
    Visiting({"Break", "Continue"}) /\ SemApply(sem_step(SemState))

VisitAssignment == Visiting({"Assignment"}) /\ SemApply(sem_step(SemState))

EnterElseScope == Returning("enter_scope") /\ SemApply(sem_step(SemState))

ExitBlockScope == Returning("exit_scope") /\ SemApply(sem_step(SemState))

EndFunction == Returning("end_function") /\ SemApply(sem_step(SemState))

AnalyzeReturn ==
    /\ semResult.kind = "Running"
    /\ agenda = <<>>
    /\ SemApply(sem_step(SemState))

SemNext ==
    \/ VisitModule
    \/ VisitFunction
    \/ VisitVariableDecl
    \/ VisitConstDecl
    \/ VisitReturn
    \/ VisitExpression
    \/ VisitIf
    \/ VisitWhile
    \/ VisitFor
    \/ VisitLoop
    \/ VisitBreakContinue
    \/ VisitAssignment
    \/ EnterElseScope
    \/ ExitBlockScope
    \/ EndFunction
    \/ AnalyzeReturn

SpecSem == SemInit /\ [][SemNext]_vars

(***************************************************************************)
(* The code generator as a state machine, run on the modules the analyzer  *)
(* accepted (main.rs: analyze, then to_assembly): one action per node or   *)
(* statement kind generated, one per tail a statement emits after a body.  *)
(***************************************************************************)
\* Statements of every kind the generator distinguishes, functions named f
\* and L0.
CodeGen ==
    [simple |-> {VariableDecl("x", Ty("I32"), NoNode, TRUE),
                 Assignment("x", BinaryOp(Identifier("x"), "+", IntLit(1))),
                 FunctionCall("print", <<StringLit("s")>>),
                 Return(NoNode), Break, Continue},
     conds |-> {BoolLit(TRUE)},
     kinds |-> {"While", "If"},
     iterator |-> "x",
     ranges |-> {},
     fnames |-> {"f", "L0"},
     params |-> {<<>>},
     returns |-> {NoType}]

\* String literals as values and as the first argument of print, equal and
\* different ones, next to a print of a variable.
StringGen ==
    [simple |-> {VariableDecl("x", NoType, StringLit("s"), FALSE),
                 FunctionCall("print", <<StringLit("s")>>),
                 FunctionCall("print", <<StringLit("t")>>),
                 FunctionCall("print", <<Identifier("x")>>),
                 BinaryOp(StringLit("s"), "==", StringLit("t"))},
     conds |-> {BoolLit(TRUE)},
     kinds |-> {"If"},
     iterator |-> "x",
     ranges |-> {},
     fnames |-> {"f"},
     params |-> {<<>>},
     returns |-> {NoType}]

\* break and continue in for and loop bodies and in if-branches.
LoopGen ==
    [simple |-> {Break, Continue},
     conds |-> {BoolLit(TRUE)},
     kinds |-> {"For", "Loop", "If"},
     iterator |-> "x",
     ranges |-> {<<IntLit(0), IntLit(1), FALSE>>},
     fnames |-> {"f"},
     params |-> {<<>>},
     returns |-> {NoType}]

GenFamilies == {ScopeGen, MutGen, CodeGen, StringGen, LoopGen}

CodeGenState ==
    [label_counter |-> label_counter, string_literals |-> string_literals,
     variables |-> variables, stack_offset |-> stack_offset,
     loop_stack |-> loop_stack, code |-> code, agenda |-> genAgenda,
     result |-> genResult]

\* The generator's fields have the values of cg.
GenIs(cg) ==
    /\ label_counter = cg.label_counter
    /\ string_literals = cg.string_literals
    /\ variables = cg.variables
    /\ stack_offset = cg.stack_offset
    /\ loop_stack = cg.loop_stack
    /\ code = cg.code
    /\ genAgenda = cg.agenda
    /\ genResult = cg.result

GenApply(cg) ==
    /\ label_counter' = cg.label_counter
    /\ string_literals' = cg.string_literals
    /\ variables' = cg.variables
    /\ stack_offset' = cg.stack_offset
    /\ loop_stack' = cg.loop_stack
    /\ code' = cg.code
    /\ genAgenda' = cg.agenda
    /\ genResult' = cg.result
    /\ UNCHANGED <<lexVars, semVars, runVars, laterVars>>

\* The analyzer has returned from analyze(module).
Analyzed ==
    LET st == sem_loop(NewAnalyzer(module))
    IN  /\ symbol_table = st.symbol_table
        /\ current_function_return = st.current_function_return
        /\ agenda = st.agenda
        /\ semResult = st.result

GenInit ==
    /\ \E G \in GenFamilies : module \in ModulesOf(G, MaxNodes)
    /\ Analyzed
    /\ semResult.kind = "Ok"
    /\ GenIs(NewCodeGenerator(module))
    /\ LexIdle
    /\ RunIdle
    /\ LaterIdle

Generating(op, kinds) ==
    /\ genResult.kind = "Running"
    /\ genAgenda # <<>>
    /\ Head(genAgenda).op = op
    /\ op \in {"node", "stmt"} => Head(genAgenda).node.kind \in kinds

GenModule == Generating("node", {"Module"}) /\ GenApply(gen_step(CodeGenState))

GenFunction == Generating("node", {"Function"}) /\ GenApply(gen_step(CodeGenState))

GenVariableDecl ==
    Generating("stmt", {"VariableDecl"}) /\ GenApply(gen_step(CodeGenState))

GenConstDecl ==
    Generating("stmt", {"ConstDecl"}) /\ GenApply(gen_step(CodeGenState))

GenReturn == Generating("stmt", {"Return"}) /\ GenApply(gen_step(CodeGenState))

GenAssignment ==
    Generating("stmt", {"Assignment"}) /\ GenApply(gen_step(CodeGenState))

GenIf == Generating("stmt", {"If"}) /\ GenApply(gen_step(CodeGenState))

GenWhile == Generating("stmt", {"While"}) /\ GenApply(gen_step(CodeGenState))

GenFor == Generating("stmt", {"For"}) /\ GenApply(gen_step(CodeGenState))

GenLoop == Generating("stmt", {"Loop"}) /\ GenApply(gen_step(CodeGenState))

GenBreak == Generating("stmt", {"Break"}) /\ GenApply(gen_step(CodeGenState))

GenContinueStmt == Generating("stmt", {"Continue"}) /\ GenApply(gen_step(CodeGenState))

GenExpression ==
    Generating("stmt", ExpressionKinds) /\ GenApply(gen_step(CodeGenState))

GenBranchEnd == Generating("emit", {}) /\ GenApply(gen_step(CodeGenState))

GenLoopEnd == Generating("end_loop", {}) /\ GenApply(gen_step(CodeGenState))

GenForEnd == Generating("end_for", {}) /\ GenApply(gen_step(CodeGenState))

GenFunctionEnd ==
    Generating("end_function", {}) /\ GenApply(gen_step(CodeGenState))

ToAssemblyReturn ==
    /\ genResult.kind = "Running"
    /\ genAgenda = <<>>
    /\ GenApply(gen_step(CodeGenState))

GenNext ==
    \/ GenModule
    \/ GenFunction
    \/ GenVariableDecl
    \/ GenConstDecl
    \/ GenReturn
    \/ GenAssignment
    \/ GenIf
    \/ GenWhile
    \/ GenFor
    \/ GenLoop
    \/ GenBreak
    \/ GenContinueStmt
    \/ GenExpression
    \/ GenBranchEnd
    \/ GenLoopEnd
    \/ GenForEnd
    \/ GenFunctionEnd
    \/ ToAssemblyReturn

SpecGen == GenInit /\ [][GenNext]_vars

(***************************************************************************)
(* Running the emitted text of main: the registers and flags the text      *)
(* uses, the slots [rbp-offset] of the frame, the values pushed below the  *)
(* frame and the calls of printf.  rsp and rbp are not tracked: every      *)
(* memory operand is relative to rbp, which is fixed between the prologue  *)
(* and leave.  One action per kind of line.                                *)
(***************************************************************************)
I64Min == [near |-> "min", off |-> 0]

\* inc on a 64-bit register wraps from i64::MAX to i64::MIN.
WrappingInc(w) == IF w = I64NearMax(0) THEN I64Min ELSE [w EXCEPT !.off = @ + 1]

Rank == "min" :> 0 @@ "0" :> 1 @@ "max" :> 2 @@ "str" :> 3

SignedLess(a, b) ==
    Rank[a.near] < Rank[b.near] \/ (a.near = b.near /\ a.off < b.off)

\* The line a jump to a label continues at.
LabelIndex(asm, name) ==
    CHOOSE i \in 1..Len(asm) :
        /\ asm[i].op = "label" /\ asm[i].arg = name
        /\ \A j \in 1..(i - 1) : ~(asm[j].op = "label" /\ asm[j].arg = name)

\* for (i in a..b) and for (i in a...b) over literals, the body printing once
\* per iteration.
RunBounds ==
    {IntLit(n) : n \in 0..MaxBound} \cup {IntLitNearMax(k) : k \in 0..1}

RunBodies ==
    {<<FunctionCall("print", <<StringLit("x")>>)>>,
     <<VariableDecl("y", NoType, Identifier("i"), FALSE),
       FunctionCall("print", <<StringLit("x")>>)>>,
     <<If(BoolLit(TRUE), <<FunctionCall("print", <<StringLit("x")>>)>>, NoBlock)>>}

RunModules ==
    {Module("main", <<Function("main", <<>>, NoType,
                               <<For("i", a, b, inclusive, body)>>)>>) :
        a \in RunBounds, b \in RunBounds, inclusive \in BOOLEAN, body \in RunBodies}

\* What a register may hold where the text has not set it: on entry and
\* after a call (rax and rcx are caller-saved).
Scratch == [{"rax", "rcx"} -> {I64(0), I64NearMax(0)}]

RunInit ==
    /\ module \in RunModules
    /\ Analyzed
    /\ semResult.kind = "Ok"
    /\ GenIs(gen_loop(NewCodeGenerator(module)))
    /\ pc = LabelIndex(genResult.asm, "main")
    /\ registers \in Scratch
    /\ flags = NoFlags
    /\ memory = [o \in {} |-> I64(0)]
    /\ stack = <<>>
    /\ calls = <<>>
    /\ runResult = [kind |-> "Running"]
    /\ LexIdle
    /\ LaterIdle

Executing(ops) ==
    /\ runResult.kind = "Running"
    /\ Len(calls) <= MaxCalls
    /\ genResult.asm[pc].op \in ops

RunApply(next_pc, regs, fl, mem) ==
    /\ pc' = next_pc
    /\ registers' = regs
    /\ flags' = fl
    /\ memory' = mem
    /\ UNCHANGED <<stack, calls, runResult, lexVars, semVars, genVars, laterVars>>

ExecLabel == Executing({"label"}) /\ RunApply(pc + 1, registers, flags, memory)

ExecFrame ==
    /\ Executing({"push rbp", "mov rbp, rsp", "sub rsp", "add rsp, 32", "leave"})
    /\ RunApply(pc + 1, registers, flags, memory)

ExecMovImm ==
    /\ Executing({"mov imm"})
    /\ LET l == genResult.asm[pc]
       IN  RunApply(pc + 1, [registers EXCEPT ![l.reg] = l.imm], flags, memory)

ExecLoad ==
    /\ Executing({"load"})
    /\ LET l == genResult.asm[pc]
       IN  \E w \in IF l.offset \in DOMAIN memory THEN {memory[l.offset]}
                    ELSE {I64(0), I64NearMax(0)} :
               RunApply(pc + 1, [registers EXCEPT ![l.reg] = w], flags, memory)

ExecStore ==
    /\ Executing({"store"})
    /\ LET l == genResult.asm[pc]
       IN  RunApply(pc + 1, registers, flags,
                    (l.offset :> registers[l.reg]) @@ memory)

ExecLea ==
    /\ Executing({"lea"})
    /\ LET l == genResult.asm[pc]
       IN  RunApply(pc + 1,
                    [registers EXCEPT ![l.reg] = [near |-> "str", off |-> l.index]],
                    flags, memory)

ExecCmp ==
    /\ Executing({"cmp rax, rcx"})
    /\ RunApply(pc + 1, registers,
                [zero |-> registers["rax"] = registers["rcx"],
                 less |-> SignedLess(registers["rax"], registers["rcx"])],
                memory)

ExecTest ==
    /\ Executing({"test rax, rax"})
    /\ RunApply(pc + 1, registers,
                [zero |-> registers["rax"] = I64(0),
                 less |-> SignedLess(registers["rax"], I64(0))],
                memory)

ExecInc ==
    /\ Executing({"inc rax"})
    /\ LET w == WrappingInc(registers["rax"])
       IN  RunApply(pc + 1, [registers EXCEPT !["rax"] = w],
                    [zero |-> w = I64(0),
                     less |-> SignedLess(registers["rax"], I64(0 - 1))],
                    memory)

ExecXor ==
    /\ Executing({"xor eax, eax"})
    /\ RunApply(pc + 1, [registers EXCEPT !["rax"] = I64(0)],
                [zero |-> TRUE, less |-> FALSE], memory)

ExecJmp ==
    /\ Executing({"jmp"})
    /\ RunApply(LabelIndex(genResult.asm, genResult.asm[pc].arg),
                registers, flags, memory)

\* jz: ZF; jg: not ZF and SF = OF; jge: SF = OF.
ExecJcc ==
    /\ Executing({"jz", "jg", "jge"})
    /\ LET l == genResult.asm[pc]
           taken == CASE l.op = "jz" -> flags.zero
                      [] l.op = "jg" -> ~flags.zero /\ ~flags.less
                      [] l.op = "jge" -> ~flags.less
       IN  RunApply(IF taken THEN LabelIndex(genResult.asm, l.arg) ELSE pc + 1,
                    registers, flags, memory)

\* printf is called with its argument in rcx; what it leaves in rax and rcx
\* is not the caller's to know.
ExecCall ==
    /\ Executing({"call printf"})
    /\ pc' = pc + 1
    /\ calls' = Append(calls, [arg |-> registers["rcx"], frame |-> memory])
    /\ registers' \in Scratch
    /\ UNCHANGED <<flags, memory, stack, runResult, lexVars, semVars, genVars,
                   laterVars>>

ExecRet ==
    /\ Executing({"ret"})
    /\ runResult' = [kind |-> "Returned"]
    /\ UNCHANGED <<pc, registers, flags, memory, stack, calls, lexVars, semVars,
                   genVars, laterVars>>

RunNext ==
    \/ ExecLabel
    \/ ExecFrame
    \/ ExecMovImm
    \/ ExecLoad
    \/ ExecStore
    \/ ExecLea
    \/ ExecCmp
    \/ ExecTest
    \/ ExecInc
    \/ ExecXor
    \/ ExecJmp
    \/ ExecJcc
    \/ ExecCall
    \/ ExecRet

SpecRun == RunInit /\ [][RunNext]_vars

(***************************************************************************)
(* Parser state machine: Parser::new(tokens), then parse() one top-level   *)
(* step at a time.                                                         *)
(***************************************************************************)
Tok(type) == [token_type |-> type, text |-> <<>>, line |-> 1, column |-> 1]

Id(c) == [token_type |-> "Identifier", text |-> <<c>>, line |-> 1, column |-> 1]

Num(d) == [token_type |-> "IntLiteral", text |-> <<d>>, line |-> 1, column |-> 1]

\* Tokens of one line, one column apart.
Placed(toks) == [i \in DOMAIN toks |-> [toks[i] EXCEPT !.column = i]]

BinaryTokens ==
    {"PipePipe", "AmpAmp"} \cup DOMAIN EqualityOps \cup DOMAIN ComparisonTokens
    \cup DOMAIN TermOps \cup DOMAIN FactorOps

Operand(i) == Id(<<"a", "b", "c", "d", "e">>[i])

\* operand (operator operand)*, n operands
RECURSIVE Chains(_)
Chains(n) ==
    IF n = 1 THEN {<<Operand(1)>>}
    ELSE {c \o <<Tok(op), Operand(n)>> : c \in Chains(n - 1), op \in BinaryTokens}

Prefixes == SeqsUpTo({Tok(t) : t \in DOMAIN UnaryOps}, MaxPrefixLen)

Prefixed ==
    {u \o <<Operand(1)>> : u \in Prefixes}
    \cup {u \o <<Operand(1), Tok(op)>> \o v \o <<Operand(2)>> :
            u \in Prefixes, v \in Prefixes, op \in BinaryTokens}

Parenthesised ==
    {<<Operand(1), Tok(o1), Tok("LeftParen"), Operand(2), Tok(o2), Operand(3),
       Tok("RightParen")>> : o1 \in BinaryTokens, o2 \in BinaryTokens}
    \cup {<<Tok("LeftParen"), Operand(1), Tok(o1), Operand(2), Tok("RightParen"),
            Tok(o2), Operand(3)>> : o1 \in BinaryTokens, o2 \in BinaryTokens}

Expressions ==
    UNION {Chains(n) : n \in 1..MaxOperands} \cup Prefixed \cup Parenthesised

FunctionOpen ==
    <<Tok("Fn"), Id("f"), Tok("LeftParen"), Tok("RightParen"), Tok("LeftBrace")>>

\* fn f() { e; }
ExpressionInputs ==
    {FunctionOpen \o e \o <<Tok("Semicolon"), Tok("RightBrace"), Tok("Eof")>> :
       e \in Expressions}

SampleStatements ==
    { <<Tok("Let"), Tok("Mut"), Id("x"), Tok("Colon"), Tok("I32"), Tok("Equal"),
        Num("1"), Tok("Semicolon")>>,
      <<Tok("Const"), Id("x"), Tok("Colon"), Tok("LeftBracket"), Tok("I32"),
        Tok("Semicolon"), Num("2"), Tok("RightBracket"), Tok("Equal"),
        Tok("LeftBracket"), Num("1"), Tok("Semicolon"), Num("2"),
        Tok("RightBracket"), Tok("Semicolon")>>,
      <<Tok("Return"), Id("x"), Tok("Semicolon")>>,
      <<Tok("If"), Tok("LeftParen"), Id("x"), Tok("RightParen"),
        Tok("LeftBrace"), Id("x"), Tok("Semicolon"), Tok("RightBrace"),
        Tok("Else"), Tok("LeftBrace"), Tok("RightBrace")>>,
      <<Tok("While"), Tok("LeftParen"), Id("x"), Tok("RightParen"),
        Tok("LeftBrace"), Tok("Break"), Tok("Semicolon"), Tok("RightBrace")>>,
      <<Tok("For"), Tok("LeftParen"), Id("x"),
        [token_type |-> "Identifier", text |-> <<"i", "n">>, line |-> 1,
         column |-> 1],
        Num("1"), Tok("Dot"), Tok("Dot"), Tok("Dot"), Num("2"),
        Tok("RightParen"), Tok("LeftBrace"), Tok("Continue"), Tok("Semicolon"),
        Tok("RightBrace")>>,
      <<Tok("Loop"), Tok("LeftBrace"), Tok("RightBrace")>>,
      <<Id("x"), Tok("Equal"), Id("f"), Tok("LeftParen"), Id("x"), Tok("Comma"),
        Num("1"), Tok("RightParen"), Tok("Semicolon")>>,
      <<Id("x"), Tok("LeftBracket"), Num("1"), Tok("RightBracket"),
        Tok("Semicolon")>>,
      <<Tok("LeftBracket"), Id("x"), Tok("Comma"), Id("x"), Tok("Comma"),
        Tok("RightBracket"), Tok("Semicolon")>> }

RECURSIVE StatementLists(_)
StatementLists(n) ==
    IF n = 0 THEN {<<>>}
    ELSE StatementLists(n - 1)
         \cup {l \o s : l \in StatementLists(n - 1), s \in SampleStatements}

\* module m; import x; fn f(x: i32, y: bool) -> i32 { ... }
SampleHeader ==
    <<Tok("Module"), Id("m"), Tok("Semicolon"), Tok("Import"), Id("x"),
      Tok("Semicolon"), Tok("Fn"), Id("f"), Tok("LeftParen"), Id("x"),
      Tok("Colon"), Tok("I32"), Tok("Comma"), Id("y"), Tok("Colon"),
      Tok("Bool"), Tok("RightParen"), Tok("Arrow"), Tok("I32"),
      Tok("LeftBrace")>>

SamplePrograms ==
    {SampleHeader \o l \o <<Tok("RightBrace")>> : l \in StatementLists(MaxStmts)}

\* every sample program and every text cut short before one of its tokens
CutPrograms ==
    UNION {{SubSeq(p, 1, k) \o <<Tok("Eof")>> : k \in 0..Len(p)} :
             p \in SamplePrograms}

TopAlphabet ==
    {Tok("Import"), Tok("Fn"), Tok("Module"), Id("x"), Tok("Semicolon"),
     Tok("LeftParen")}

BodyAlphabet ==
    {Id("x"), Tok("Semicolon"), Tok("LeftBrace"), Tok("RightBrace"),
     Tok("Loop"), Tok("LeftParen"), Tok("RightParen"), Tok("Comma")}

ParseInputFamilies ==
    { ExpressionInputs,
      CutPrograms,
      {s \o <<Tok("Eof")>> : s \in SeqsUpTo(TopAlphabet, MaxTopLen)},
      {FunctionOpen \o s \o <<Tok("Eof")>> :
         s \in SeqsUpTo(BodyAlphabet, MaxBodyLen)} }

ParseState ==
    [current |-> current, module_name |-> module_name, items |-> parsed_items,
     result |-> parseResult]

ParseInit ==
    /\ \E F \in ParseInputFamilies : \E toks \in F : parser_tokens = Placed(toks)
    /\ current = NewParser.current
    /\ module_name = NewParser.module_name
    /\ parsed_items = NewParser.items
    /\ parseResult = NewParser.result
    /\ LexIdle
    /\ SemIdle
    /\ GenIdle
    /\ RunIdle
    /\ CompileIdle
    /\ returned = <<>>

ParseApply(st) ==
    /\ current' = st.current
    /\ module_name' = st.module_name
    /\ parsed_items' = st.items
    /\ parseResult' = st.result
    /\ UNCHANGED <<parser_tokens, lexVars, semVars, genVars, runVars,
                   compileVars, returned>>

ParseModuleDeclaration ==
    /\ parseResult.kind = "Start"
    /\ \E st \in {parse_step(parser_tokens, ParseState)} : ParseApply(st)

ParseImport ==
    /\ parseResult.kind = "Running"
    /\ check(parser_tokens, current, "Import")
    /\ \E st \in {parse_step(parser_tokens, ParseState)} : ParseApply(st)

ParseFunction ==
    /\ parseResult.kind = "Running"
    /\ check(parser_tokens, current, "Fn")
    /\ \E st \in {parse_step(parser_tokens, ParseState)} : ParseApply(st)

ParseUnexpected ==
    /\ parseResult.kind = "Running"
    /\ ~parser_is_at_end(parser_tokens, current)
    /\ ~check(parser_tokens, current, "Import")
    /\ ~check(parser_tokens, current, "Fn")
    /\ \E st \in {parse_step(parser_tokens, ParseState)} : ParseApply(st)

ParseReturn ==
    /\ parseResult.kind = "Running"
    /\ parser_is_at_end(parser_tokens, current)
    /\ \E st \in {parse_step(parser_tokens, ParseState)} : ParseApply(st)

ParseNext ==
    \/ ParseModuleDeclaration
    \/ ParseImport
    \/ ParseFunction
    \/ ParseUnexpected
    \/ ParseReturn

SpecParse == ParseInit /\ [][ParseNext]_vars

(***************************************************************************)
(* Lexer claims.                                                           *)
(***************************************************************************)
LexDone == lexResult.kind # "Running"

TokenKinds(toks) == [i \in 1..Len(toks) |-> toks[i].token_type]

\* Index of the `*` of the first `*/` at or after index p, 0 when there is none.
RECURSIVE CommentClose(_, _)
CommentClose(inp, p) ==
    IF p >= Len(inp) THEN 0
    ELSE IF inp[p] = "*" /\ inp[p + 1] = "/" THEN p
    ELSE CommentClose(inp, p + 1)

RECURSIVE LineEnd(_, _)
LineEnd(inp, p) ==
    IF p > Len(inp) \/ inp[p] = NL THEN p ELSE LineEnd(inp, p + 1)

\* The text from index p on with every comment replaced by one space; n counts
\* the comments and closed tells whether every block comment was closed.
RECURSIVE CommentsAsSpaces(_, _)
CommentsAsSpaces(inp, p) ==
    IF p > Len(inp) THEN [text |-> <<>>, n |-> 0, closed |-> TRUE]
    ELSE IF inp[p] = "/" /\ p < Len(inp) /\ inp[p + 1] = "/"
    THEN LET r == CommentsAsSpaces(inp, LineEnd(inp, p))
         IN  [r EXCEPT !.text = <<" ">> \o @, !.n = @ + 1]
    ELSE IF inp[p] = "/" /\ p < Len(inp) /\ inp[p + 1] = "*"
    THEN IF CommentClose(inp, p + 2) = 0
         THEN [text |-> <<>>, n |-> 1, closed |-> FALSE]
         ELSE LET r == CommentsAsSpaces(inp, CommentClose(inp, p + 2) + 2)
              IN  [r EXCEPT !.text = <<" ">> \o @, !.n = @ + 1]
    ELSE LET r == CommentsAsSpaces(inp, p + 1)
         IN  [r EXCEPT !.text = <<inp[p]>> \o @]

NoQuotes(inp) == \A i \in 1..Len(inp) : inp[i] \notin {DQ, SQ}

\* C1: a text with a line comment or a closed block comment tokenizes
\* successfully to the token kinds of the same text with each comment replaced
\* by a space: a comment produces no token and no error.
C1_CommentsAreSilent ==
    LET c == CommentsAsSpaces(input, 1)
    IN  (/\ LexDone
         /\ NoQuotes(input)
         /\ c.n > 0
         /\ c.closed
         /\ tokenize(c.text).kind = "Ok")
        => /\ lexResult.kind = "Ok"
           /\ TokenKinds(tokens) = TokenKinds(tokenize(c.text).tokens)

\* The input ends with a character c that starts a token of its own: what
\* precedes it tokenizes by itself and does not end in an operator character, a
\* quote or a comment.
EndsWithLoneOperator(inp) ==
    /\ Len(inp) > 0
    /\ inp[Len(inp)] \in DOMAIN LookaheadTokens
    /\ NoQuotes(inp)
    /\ CommentsAsSpaces(inp, 1).n = 0
    /\ Len(inp) > 1 => inp[Len(inp) - 1] \notin DOMAIN LookaheadTokens
    /\ tokenize(SubSeq(inp, 1, Len(inp) - 1)).kind = "Ok"

\* C9: tokenize is total, it ends in a token sequence or a LexError and never
\* reads past the end of the input; an input ending right after one of
\* - = ! < > & | : yields that single-character token followed by Eof.
C9_TokenizeIsTotal ==
    /\ lexResult.kind # "Panic"
    /\ (LexDone /\ EndsWithLoneOperator(input))
       => /\ lexResult.kind = "Ok"
          /\ Len(tokens) >= 2
          /\ tokens[Len(tokens)].token_type = "Eof"
          /\ tokens[Len(tokens) - 1].token_type
               = LookaheadTokens[input[Len(input)]].single

\* TRUE when a string body starting at index p reaches its closing quote.
RECURSIVE StringCloses(_, _)
StringCloses(inp, p) ==
    IF p > Len(inp) THEN FALSE
    ELSE IF inp[p] = BS THEN StringCloses(inp, p + 2)
    ELSE IF inp[p] = DQ THEN TRUE
    ELSE StringCloses(inp, p + 1)

UnterminatedString(inp) ==
    Len(inp) >= 1 /\ inp[1] = DQ /\ ~StringCloses(inp, 2)

\* The closing quote of a character literal stands after its one logical
\* character (two source characters when escaped); here the input ends first.
UnterminatedChar(inp) ==
    /\ Len(inp) >= 1
    /\ inp[1] = SQ
    /\ Len(inp) < (IF Len(inp) >= 2 /\ inp[2] = BS THEN 4 ELSE 3)

UnterminatedBlockComment(inp) ==
    Len(inp) >= 2 /\ inp[1] = "/" /\ inp[2] = "*" /\ CommentClose(inp, 3) = 0

\* C10: when the input ends before the closing delimiter of a string literal, a
\* character literal or a block comment, tokenize returns a LexError.
C10_UnterminatedIsLexError ==
    (/\ LexDone
     /\ \/ UnterminatedString(input)
        \/ UnterminatedChar(input)
        \/ UnterminatedBlockComment(input))
    => lexResult.kind = "Err"

(***************************************************************************)
(* Scoping and typing rules stated on the tree.  Walk(stmts, env, local,   *)
(* ret) lists, in source order, what the statements of one block do to the *)
(* names they mention: env holds the bindings visible at the block (its    *)
(* own and those of the enclosing blocks), local the names the block       *)
(* itself has declared so far, ret the return type of the function.        *)
(***************************************************************************)
Faults ==
    {"UndeclaredUse", "UndeclaredTarget", "ImmutableTarget", "TypePair",
     "Redeclared", "CannotInfer", "NotArray"}

Bind(env, name, type, mutable) == (name :> SymbolInfo(type, mutable)) @@ env

RECURSIVE Flatten(_)
Flatten(seqs) == IF seqs = <<>> THEN <<>> ELSE Head(seqs) \o Flatten(Tail(seqs))

\* The static type of an expression, NoType when it has none.
RECURSIVE TypeOf(_, _)
TypeOf(e, env) ==
    CASE e.kind = "Literal" -> LiteralType[e.lit]
      [] e.kind = "Identifier" ->
            IF e.name \in DOMAIN env THEN env[e.name].symbol_type ELSE NoType
      [] e.kind = "BinaryOp" ->
            IF e.op \in ComparisonOps THEN Ty("Bool") ELSE TypeOf(e.left, env)
      [] e.kind = "UnaryOp" -> TypeOf(e.operand, env)
      [] e.kind = "FunctionCall" -> Ty("I32")
      [] e.kind = "ArrayLiteral" ->
            IF e.elements = <<>> THEN ArrayTy(Ty("I32"), 0)
            ELSE ArrayTy(TypeOf(e.elements[1], env), Len(e.elements))
      [] e.kind = "ArrayRepeat" -> ArrayTy(TypeOf(e.value, env), e.count)
      [] e.kind = "ArrayIndex" ->
            LET a == TypeOf(e.array, env)
            IN  IF a.tag = "Array" THEN a.elem ELSE NoType

\* A checked pair of types: nothing when they are equal.
Pair(t1, t2) == IF t1 = t2 THEN <<>> ELSE <<"TypePair">>

RECURSIVE Uses(_, _)
Uses(e, env) ==
    CASE e.kind = "Literal" -> <<>>
      [] e.kind = "Identifier" ->
            IF e.name \in DOMAIN env THEN <<"Use">> ELSE <<"UndeclaredUse">>
      [] e.kind = "BinaryOp" ->
            Uses(e.left, env) \o Uses(e.right, env)
            \o Pair(TypeOf(e.left, env), TypeOf(e.right, env))
      [] e.kind = "UnaryOp" -> Uses(e.operand, env)
      [] e.kind = "FunctionCall" ->
            Flatten([i \in 1..Len(e.args) |-> Uses(e.args[i], env)])
      [] e.kind = "ArrayLiteral" ->
            Flatten([i \in 1..Len(e.elements) |->
                        Uses(e.elements[i], env)
                        \o (IF i = 1 THEN <<>>
                            ELSE Pair(TypeOf(e.elements[1], env),
                                      TypeOf(e.elements[i], env)))])
      [] e.kind = "ArrayRepeat" -> Uses(e.value, env)
      [] e.kind = "ArrayIndex" ->
            Uses(e.array, env) \o Uses(e.index, env)
            \o (IF TypeOf(e.array, env).tag = "Array" THEN <<>>
                ELSE <<"NotArray">>)

\* Declaring name in a block that has declared the names of local.
Declares(name, env, local) ==
    IF name \in local THEN <<"Redeclared">>
    ELSE IF name \in DOMAIN env THEN <<"Shadow">>
    ELSE <<"Declare">>

RECURSIVE Walk(_, _, _, _)
Walk(stmts, env, local, ret) ==
    IF stmts = <<>> THEN <<>>
    ELSE
    LET s == Head(stmts)
        rest == Tail(stmts)
    IN
    CASE s.kind = "Function" ->
            LET P(i) == {s.params[j].name : j \in 1..(i - 1)}
                E(i) == [n \in P(i) |->
                           LET j == CHOOSE j \in 1..(i - 1) : s.params[j].name = n
                           IN  SymbolInfo(s.params[j].type, FALSE)] @@ env
                n == Len(s.params)
            IN  Flatten([i \in 1..n |-> Declares(s.params[i].name, E(i), P(i))])
                \o Walk(s.body, E(n + 1), P(n + 1), s.return_type)
                \o Walk(rest, env, local, ret)
      [] s.kind = "VariableDecl" ->
            LET t == IF s.value = NoNode THEN NoType ELSE TypeOf(s.value, env)
                final == IF s.var_type # NoType THEN s.var_type ELSE t
            IN  (IF s.value = NoNode THEN <<>> ELSE Uses(s.value, env))
                \o (IF s.var_type # NoType /\ s.value # NoNode
                    THEN Pair(s.var_type, t) ELSE <<>>)
                \o (IF s.var_type = NoType /\ s.value = NoNode
                    THEN <<"CannotInfer">> ELSE <<>>)
                \o Declares(s.name, env, local)
                \o Walk(rest, Bind(env, s.name, final, s.mutable),
                        local \cup {s.name}, ret)
      [] s.kind = "ConstDecl" ->
            Uses(s.value, env)
            \o Pair(s.const_type, TypeOf(s.value, env))
            \o Declares(s.name, env, local)
            \o Walk(rest, Bind(env, s.name, s.const_type, FALSE),
                    local \cup {s.name}, ret)
      [] s.kind = "Return" ->
            (IF s.value = NoNode THEN <<>>
             ELSE Uses(s.value, env)
                  \o (IF ret = NoType THEN <<>>
                      ELSE Pair(ret, TypeOf(s.value, env))))
            \o Walk(rest, env, local, ret)
      [] s.kind \in ExpressionKinds ->
            Uses(s, env) \o Walk(rest, env, local, ret)
      [] s.kind = "If" ->
            Uses(s.condition, env)
            \o Pair(Ty("Bool"), TypeOf(s.condition, env))
            \o Walk(s.then_branch, env, {}, ret)
            \o (IF s.else_branch.some
                THEN Walk(s.else_branch.body, env, {}, ret) ELSE <<>>)
            \o Walk(rest, env, local, ret)
      [] s.kind = "While" ->
            Uses(s.condition, env)
            \o Pair(Ty("Bool"), TypeOf(s.condition, env))
            \o Walk(s.body, env, {}, ret)
            \o Walk(rest, env, local, ret)
      [] s.kind = "For" ->
            Uses(s.range_start, env) \o Uses(s.range_end, env)
            \o Declares(s.iterator, env, {})
            \o Walk(s.body, Bind(env, s.iterator, Ty("I32"), FALSE),
                    {s.iterator}, ret)
            \o Walk(rest, env, local, ret)
      [] s.kind = "Loop" ->
            Walk(s.body, env, {}, ret) \o Walk(rest, env, local, ret)
      [] s.kind \in {"Break", "Continue"} -> Walk(rest, env, local, ret)
      [] s.kind = "Assignment" ->
            (IF s.target \notin DOMAIN env THEN <<"UndeclaredTarget">>
             ELSE IF ~env[s.target].mutable THEN <<"ImmutableTarget">>
             ELSE <<"AssignMut">>)
            \o Uses(s.value, env)
            \o (IF s.target \in DOMAIN env
                THEN Pair(env[s.target].symbol_type, TypeOf(s.value, env))
                ELSE <<>>)
            \o Walk(rest, env, local, ret)

IsFault(ev) == ev \in Faults

\* What the items of a module do, and the rules they break, in source order.
ModuleTrace(m) == Walk(m.items, EmptyScope, {}, NoType)

ModuleFaults(m) == SelectSeq(ModuleTrace(m), IsFault)

Happens(m, ev) == \E i \in 1..Len(ModuleTrace(m)) : ModuleTrace(m)[i] = ev

\* The events of a module up to its first fault.
RECURSIVE UpToFault(_)
UpToFault(tr) ==
    IF tr = <<>> THEN <<>>
    ELSE IF IsFault(Head(tr)) THEN <<Head(tr)>>
    ELSE <<Head(tr)>> \o UpToFault(Tail(tr))

SemDone == semResult.kind \in {"Ok", "Err"}

FirstFault(m) ==
    IF ModuleFaults(m) = <<>> THEN "None" ELSE Head(ModuleFaults(m))

FaultMessages ==
    [f \in Faults |->
        CASE f \in {"UndeclaredUse", "UndeclaredTarget"} -> {"Undefined variable"}
          [] f = "ImmutableTarget" -> {"Cannot assign to immutable variable"}
          [] f = "Redeclared" -> {"Variable already declared in this scope"}
          [] f = "CannotInfer" -> {"Cannot infer type"}
          [] f = "NotArray" -> {"Can only index arrays"}
          [] f = "TypePair" ->
                {"Type mismatch", "Constant type mismatch", "Return type mismatch",
                 "Type mismatch in binary operation",
                 "Array elements must have same type",
                 "Type mismatch in assignment", "Condition must be boolean"}]

SemRejects(msg) == semResult = [kind |-> "Err", msg |-> msg]

\* The outcome of analyze is the one the rules give: Ok without a fault, the
\* error of the first fault otherwise.
AgreesWithRules ==
    IF ModuleFaults(module) = <<>> THEN semResult.kind = "Ok"
    ELSE /\ semResult.kind = "Err"
         /\ semResult.msg \in FaultMessages[FirstFault(module)]

\* The three conditions of C2: declared uses, mutable targets, equal type pairs.
ThreeConditions(m) ==
    \A i \in 1..Len(ModuleFaults(m)) :
        ModuleFaults(m)[i] \notin
            {"UndeclaredUse", "UndeclaredTarget", "ImmutableTarget", "TypePair"}

\* C2 as stated: analyze accepts a module if and only if every identifier use
\* is preceded by a declaration in the same or an enclosing scope, every
\* assignment target is mutable and every checked type pair is equal.
C2_AcceptsIffThreeConditions ==
    SemDone => (semResult.kind = "Ok" <=> ThreeConditions(module))

\* C2 amended: analyze accepts a module if and only if, besides the three
\* conditions, no name is declared twice in one scope, every let has a type
\* annotation or an initializer and every indexed expression is an array; a
\* rejected module is rejected with the error of its first fault.
C2_AcceptsIffWellFormed ==
    SemDone => /\ semResult.kind = "Ok" <=> ModuleFaults(module) = <<>>
               /\ AgreesWithRules

C2_RejectedOutsideThreeConditions ==
    /\ SemDone
    /\ ThreeConditions(module)
    /\ FirstFault(module) = "Redeclared"
    /\ SemRejects("Variable already declared in this scope")

\* C3: an identifier reference is accepted only if its name is bound in the
\* block it stands in or in an enclosing one; a reference to a name declared
\* only in a closed sibling block or in another function is rejected with
\* "Undefined variable".
C3_UndeclaredUseIsRejected ==
    SemDone => /\ FirstFault(module) = "UndeclaredUse"
                    => SemRejects("Undefined variable")
               /\ semResult.kind = "Ok" => ~Happens(module, "UndeclaredUse")
               /\ Happens(module, "Use") /\ ModuleFaults(module) = <<>>
                    => semResult.kind = "Ok"

C3_UseAfterBlockClosed ==
    /\ SemDone
    /\ module = Module("main", <<Function("f", <<>>, NoType,
                    <<Loop(<<VariableDecl("x", NoType, IntLit(1), FALSE)>>),
                      Identifier("x")>>)>>)
    /\ SemRejects("Undefined variable")

\* C4: an assignment is accepted only when its target resolves, innermost
\* scope first, to a let mut binding; a target that is a let without mut, a
\* const, a parameter, a for iterator or unbound is rejected, and a let mut
\* binding assigned a value of its own type is accepted.
C4_AssignmentNeedsLetMut ==
    SemDone => /\ FirstFault(module) = "ImmutableTarget"
                    => SemRejects("Cannot assign to immutable variable")
               /\ FirstFault(module) = "UndeclaredTarget"
                    => SemRejects("Undefined variable")
               /\ semResult.kind = "Ok"
                    => /\ ~Happens(module, "ImmutableTarget")
                       /\ ~Happens(module, "UndeclaredTarget")
               /\ Happens(module, "AssignMut") /\ ModuleFaults(module) = <<>>
                    => semResult.kind = "Ok"

C4_ImmutableTargetRejected ==
    /\ SemDone
    /\ module = Module("main", <<Function("f", <<Param("x", Ty("I32"))>>, NoType,
                    <<If(BoolLit(TRUE),
                         <<VariableDecl("x", NoType, IntLit(1), TRUE)>>, NoBlock),
                      Assignment("x", IntLit(2))>>)>>)
    /\ SemRejects("Cannot assign to immutable variable")

\* C5: declaring a name the innermost scope already binds (a parameter in the
\* function body, the iterator at the top of the for body) is rejected, and
\* declaring a name bound only in an enclosing scope is accepted and shadows
\* the outer binding until the inner scope is left.
C5_RedeclarationAndShadowing ==
    SemDone => /\ FirstFault(module) = "Redeclared"
                    => SemRejects("Variable already declared in this scope")
               /\ semResult.kind = "Ok" => ~Happens(module, "Redeclared")
               /\ (\E i \in 1..Len(UpToFault(ModuleTrace(module))) :
                        UpToFault(ModuleTrace(module))[i] = "Shadow")
                    => AgreesWithRules

C5_ShadowingAccepted ==
    /\ SemDone
    /\ semResult.kind = "Ok"
    /\ Happens(module, "Shadow")
    /\ Happens(module, "AssignMut")

(***************************************************************************)
(* Code generator claims.                                                  *)
(***************************************************************************)
GenDone == genResult.kind = "Ok"

\* The names the label definitions of a text define, in order.
LabelDefinitions(asm) ==
    LET IsLabel(l) == l.op = "label"
        defs == SelectSeq(asm, IsLabel)
    IN  [i \in 1..Len(defs) |-> defs[i].arg]

Unique(names) ==
    \A i, j \in 1..Len(names) : names[i] = names[j] => i = j

\* C6: for a module the analyzer accepted, to_assembly returns and no label
\* is defined twice in its output, neither a function name nor an L<n>.
C6_LabelsAreUnique ==
    GenDone => Unique(LabelDefinitions(genResult.asm))

\* The names generate_expression looks up in variables.
RECURSIVE Reads(_)
Reads(e) ==
    CASE e.kind = "Identifier" -> {e.name}
      [] e.kind = "BinaryOp" -> Reads(e.left) \cup Reads(e.right)
      [] e.kind = "UnaryOp" -> Reads(e.operand)
      [] e.kind = "FunctionCall" ->
            IF e.name = "print" /\ e.args # <<>>
               /\ ~(e.args[1].kind = "Literal" /\ e.args[1].lit = "String")
            THEN Reads(e.args[1]) ELSE {}
      [] OTHER -> {}

\* The names a statement looks up before it generates a body, those it has
\* inserted itself by then left out.
Lookups(stmt) ==
    CASE stmt.kind \in {"VariableDecl", "Return"} ->
            IF stmt.value = NoNode THEN {} ELSE Reads(stmt.value)
      [] stmt.kind = "ConstDecl" -> Reads(stmt.value)
      [] stmt.kind = "Assignment" -> {stmt.target} \cup Reads(stmt.value)
      [] stmt.kind \in {"If", "While"} -> Reads(stmt.condition)
      [] stmt.kind = "For" ->
            Reads(stmt.range_start) \cup (Reads(stmt.range_end) \ {stmt.iterator})
      [] stmt.kind \in ExpressionKinds -> Reads(stmt)
      [] OTHER -> {}

\* C8: for a module the analyzer accepted, every identifier read and every
\* assignment target the generator reaches has an entry in variables at
\* that point, so that its load or store is emitted.
C8_LookupsFindTheirSlot ==
    (genResult.kind = "Running" /\ genAgenda # <<>> /\ Head(genAgenda).op = "stmt")
    => Lookups(Head(genAgenda).node) \subseteq DOMAIN variables

\* The for statement of the running module, and the value of its iterator in
\* the k-th iteration, as an integer.
RunFor == module.items[1].body[1]

IteratorAt(k) == [RunFor.range_start.int EXCEPT !.off = @ + (k - 1)]

InRange(v) ==
    IF RunFor.inclusive THEN ~SignedLess(RunFor.range_end.int, v)
    ELSE SignedLess(v, RunFor.range_end.int)

ExitJumps(asm) ==
    {asm[i].op : i \in {j \in 1..Len(asm) : asm[j].op \in {"jg", "jge"}}}

\* C7: the loop over a..b exits with jge and the loop over a...b with jg, and
\* running the text executes the body once for each i = a, a+1, ... up to
\* b-1, respectively b, in this order, and then leaves the loop: the k-th
\* call of the body finds a+k-1 in the iterator's slot, a value of the range,
\* and the function returns only after the last value of the range.
C7_ForRunsOncePerValue ==
    runResult.kind \in {"Running", "Returned"} =>
        /\ ExitJumps(genResult.asm) = {IF RunFor.inclusive THEN "jg" ELSE "jge"}
        /\ \A k \in 1..Len(calls) :
                /\ calls[k].frame[8] = IteratorAt(k)
                /\ InRange(IteratorAt(k))
        /\ runResult.kind = "Returned" => ~InRange(IteratorAt(Len(calls) + 1))

(***************************************************************************)
(* Lexer claims on numbers and positions.                                  *)
(***************************************************************************)
\* The index of the last character of the maximal run of characters of S that
\* starts at index p (p - 1 when inp[p] is not in S).
RECURSIVE RunEnd(_, _, _)
RunEnd(inp, p, S) ==
    IF p <= Len(inp) /\ inp[p] \in S THEN RunEnd(inp, p + 1, S) ELSE p - 1

StartsWithDigit(inp) == inp # <<>> /\ IsDigit(inp[1])

\* C11: a maximal digit run followed by two or more dots lexes to an integer
\* token of the run, then one Dot token per dot, then the following token;
\* a digit run followed by one dot that no second dot follows lexes to one
\* float token that takes the dot and the digit run after it.
C11_DotsAfterDigits ==
    (LexDone /\ StartsWithDigit(input)) =>
        LET n == RunEnd(input, 1, Digits)
            d == RunEnd(input, n + 1, {"."}) - n
            m == RunEnd(input, n + 2, Digits)
        IN  /\ d >= 2 =>
                /\ lexResult.kind = "Ok"
                /\ tokens[1].token_type = "IntLiteral"
                /\ tokens[1].text = SubSeq(input, 1, n)
                /\ \A k \in 1..d : /\ tokens[1 + k].token_type = "Dot"
                                    /\ tokens[1 + k].column = n + k
                /\ tokens[2 + d].column = n + d + 1
            /\ d = 1 =>
                /\ lexResult.kind = "Ok"
                /\ tokens[1].token_type = "FloatLiteral"
                /\ tokens[1].text = SubSeq(input, 1, m)
                /\ tokens[2].column = m + 1

\* The cursor at which next_token reads the first character of the token it
\* returns: the comments next_token skips before it come first.
RECURSIVE TokenStart(_, _)
TokenStart(inp, L) ==
    IF is_at_end(inp, L) THEN L
    ELSE IF current_char(inp, L) = "/" /\ peek(inp, L) = "/"
    THEN TokenStart(inp, skip_line_comment(inp, L))
    ELSE IF current_char(inp, L) = "/" /\ peek(inp, L) = "*"
    THEN LET r == skip_block_comment(inp, L)
         IN  IF r.res = "ok" THEN TokenStart(inp, r.L) ELSE L
    ELSE L

\* Line and column of the character at 0-based offset p, counted on the text.
TrueLine(inp, p) == 1 + Cardinality({i \in 1..p : inp[i] = NL})

TrueColumn(inp, p) ==
    LET nls == {i \in 1..p : inp[i] = NL}
    IN  IF nls = {} THEN p + 1
        ELSE p + 1 - (CHOOSE i \in nls : \A j \in nls : j <= i)

\* C12: every token pushed by tokenize, the end-of-input token included,
\* records the line (1 plus the newlines before its first character) and the
\* column (1 plus the characters since the last newline or the start) where
\* it begins in the text.
C12_PositionsAreTrue ==
    [][Len(tokens') = Len(tokens) + 1 =>
        LET p == TokenStart(input, skip_whitespace(input, LexState.L)).position
            t == tokens'[Len(tokens')]
        IN  /\ t.line = TrueLine(input, p)
            /\ t.column = TrueColumn(input, p)]_vars

PositionBefore(t, u) ==
    \/ t.line < u.line
    \/ t.line = u.line /\ t.column < u.column

\* C13: in a token sequence tokenize returns, each token's (line, column) is
\* lexicographically before the next one's, the last token is the end-of-input
\* token and no other token is.
C13_PositionsIncrease ==
    lexResult.kind = "Ok" =>
        /\ tokens # <<>>
        /\ \A i \in 1..Len(tokens) :
               tokens[i].token_type = "Eof" <=> i = Len(tokens)
        /\ \A i \in 1..(Len(tokens) - 1) :
               PositionBefore(tokens[i], tokens[i + 1])

\* two tokens on one line and the end-of-input token on a later line
C13_TokensOnSeveralLines ==
    /\ lexResult.kind = "Ok"
    /\ Len(tokens) = 3
    /\ tokens[2].line = tokens[1].line
    /\ tokens[3].line > tokens[2].line

(***************************************************************************)
(* Parser claims.                                                          *)
(***************************************************************************)
ParseDone == parseResult.kind \notin {"Idle", "Start", "Running"}

\* Reference: precedence climbing over the tokens e of one expression.  A
\* binary operator of level l takes as its right operand everything that binds
\* tighter than l and then yields to the operators of level >= min on its
\* right, so equal levels group to the left; a prefix operator applies to the
\* prefix expression after it.
Binding ==
    "PipePipe" :> 1 @@ "AmpAmp" :> 2 @@ "EqualEqual" :> 3 @@ "NotEqual" :> 3 @@
    "Less" :> 4 @@ "LessEqual" :> 4 @@ "Greater" :> 4 @@ "GreaterEqual" :> 4 @@
    "Plus" :> 5 @@ "Minus" :> 5 @@ "Star" :> 6 @@ "Slash" :> 6 @@ "Percent" :> 6

Spelling ==
    "PipePipe" :> "||" @@ "AmpAmp" :> "&&" @@ "EqualEqual" :> "==" @@
    "NotEqual" :> "!=" @@ "Less" :> "<" @@ "LessEqual" :> "<=" @@
    "Greater" :> ">" @@ "GreaterEqual" :> ">=" @@ "Plus" :> "+" @@
    "Minus" :> "-" @@ "Star" :> "*" @@ "Slash" :> "/" @@ "Percent" :> "%" @@
    "Bang" :> "!"

RECURSIVE RefPrefix(_, _)
RECURSIVE RefClimb(_, _, _)
RECURSIVE RefYield(_, _, _)

RefPrefix(e, i) ==
    IF e[i].token_type \in {"Minus", "Bang"}
    THEN The({ [node |-> UnaryOp(Spelling[e[i].token_type], r.node),
                next |-> r.next] : r \in {RefPrefix(e, i + 1)} })
    ELSE IF e[i].token_type = "LeftParen"
    THEN The({ [node |-> r.node, next |-> r.next + 1] :
               r \in {RefClimb(e, i + 1, 1)} })
    ELSE [node |-> Identifier(Name(e[i].text)), next |-> i + 1]

RefYield(e, lhs, min) ==
    IF /\ lhs.next <= Len(e)
       /\ e[lhs.next].token_type \in DOMAIN Binding
       /\ Binding[e[lhs.next].token_type] >= min
    THEN The({ RefYield(e, [node |-> BinaryOp(lhs.node,
                                     Spelling[e[lhs.next].token_type], rhs.node),
                            next |-> rhs.next], min) :
               rhs \in {RefClimb(e, lhs.next + 1,
                                 Binding[e[lhs.next].token_type] + 1)} })
    ELSE lhs

RefClimb(e, i, min) == RefYield(e, RefPrefix(e, i), min)

Unplaced(toks) == [i \in DOMAIN toks |-> [toks[i] EXCEPT !.column = 1]]

\* The tokens between `fn f() {` and `; }`.
ExpressionTokens == SubSeq(parser_tokens, 6, Len(parser_tokens) - 3)

\* C14: for a function whose body is one expression statement made of
\* operands, binary operators, prefix operators and parentheses, parse returns
\* the module whose statement is the tree the reference precedence parser
\* builds: levels || < && < == != < comparisons < + - < * / % < prefix - !,
\* equal levels grouped to the left, prefix operators nested to the right.
C14_ParsesByPrecedence ==
    (ParseDone /\ Unplaced(parser_tokens) \in ExpressionInputs) =>
        /\ parseResult.kind = "Ok"
        /\ parseResult.node =
              Module("main", <<Function("f", <<>>, NoType,
                                        <<RefClimb(ExpressionTokens, 1, 1).node>>)>>)

\* a - b * c is parsed to a - (b * c)
C14_ProductUnderDifference ==
    /\ parseResult.kind = "Ok"
    /\ parseResult.node.items # <<>>
    /\ parseResult.node.items[1].body =
          <<BinaryOp(Identifier("a"), "-",
                     BinaryOp(Identifier("b"), "*", Identifier("c")))>>

\* parse is sequential code: once called it keeps taking its next step.
SpecParseFair == SpecParse /\ WF_vars(ParseNext)

\* The result is a Module or a ParseError, never an iteration that leaves the
\* cursor where it was, and the cursor is the index of a token (at most that of
\* the end-of-input token, the last one).
ParseOutcomeAndCursor ==
    /\ parseResult.kind \in {"Start", "Running", "Ok", "Err"}
    /\ parseResult.kind = "Ok" => parseResult.node.kind = "Module"
    /\ parseResult.kind = "Err" => parseResult.error.res = "ParseError"
    /\ current \in 0..(Len(parser_tokens) - 1)
    /\ \A i \in 1..current : parser_tokens[i].token_type # "Eof"

\* An iteration of the top-level loop consumes a token or returns an error
\* (or, at the end-of-input token, there is no iteration and parse returns).
IterationConsumes ==
    parseResult.kind = "Running" =>
        \/ current' > current
        \/ parseResult'.kind = "Err"
        \/ parseResult'.kind = "Ok" /\ parser_is_at_end(parser_tokens, current)

\* C19: on a token sequence that ends with its only end-of-input token, parse
\* terminates with a Module or a ParseError; every iteration of its loops
\* consumes at least one token or returns an error; the cursor never moves
\* past the end-of-input token.
C19_ParseTerminates ==
    /\ []ParseOutcomeAndCursor
    /\ [][IterationConsumes]_vars
    /\ <>ParseDone

\* a whole sample program with an if/else and a while in the function body has
\* been parsed up to the end-of-input token
C19_NestedBlocksParsed ==
    /\ parseResult.kind = "Ok"
    /\ current = Len(parser_tokens) - 1
    /\ parseResult.node.name = "m"
    /\ Len(parseResult.node.items) = 1
    /\ Len(parseResult.node.items[1].body) = 2
    /\ parseResult.node.items[1].body[1].kind = "If"
    /\ parseResult.node.items[1].body[2].kind = "While"

(***************************************************************************)
(* Code generator claims on the string pool.                               *)
(***************************************************************************)
\* The strings the generator evaluates, in the order it evaluates them: a
\* string literal in a value position, or the literal first argument of print
\* (stored with a newline appended).
RECURSIVE EvaluatedStrings(_)
EvaluatedStrings(e) ==
    CASE e = NoNode -> <<>>
      [] e.kind = "Literal" -> IF e.lit = "String" THEN <<e.str>> ELSE <<>>
      [] e.kind = "BinaryOp" -> EvaluatedStrings(e.right) \o EvaluatedStrings(e.left)
      [] e.kind = "UnaryOp" -> EvaluatedStrings(e.operand)
      [] e.kind = "FunctionCall" ->
            IF e.name = "print" /\ e.args # <<>>
            THEN IF e.args[1].kind = "Literal" /\ e.args[1].lit = "String"
                 THEN <<e.args[1].str \o "\n">>
                 ELSE EvaluatedStrings(e.args[1])
            ELSE <<>>
      [] OTHER -> <<>>

RECURSIVE PoolOfBlock(_)
PoolOfStatement(s) ==
    CASE s.kind \in {"VariableDecl", "ConstDecl", "Return", "Assignment"} ->
            EvaluatedStrings(s.value)
      [] s.kind = "If" ->
            EvaluatedStrings(s.condition) \o PoolOfBlock(s.then_branch)
            \o (IF s.else_branch.some THEN PoolOfBlock(s.else_branch.body)
                ELSE <<>>)
      [] s.kind = "While" -> EvaluatedStrings(s.condition) \o PoolOfBlock(s.body)
      [] s.kind = "For" ->
            EvaluatedStrings(s.range_start) \o EvaluatedStrings(s.range_end)
            \o PoolOfBlock(s.body)
      [] s.kind = "Loop" -> PoolOfBlock(s.body)
      [] s.kind \in {"Break", "Continue"} -> <<>>
      [] OTHER -> EvaluatedStrings(s)

PoolOfBlock(body) ==
    IF body = <<>> THEN <<>>
    ELSE PoolOfStatement(Head(body)) \o PoolOfBlock(Tail(body))

RECURSIVE PoolOfFunctions(_)
PoolOfFunctions(fs) ==
    IF fs = <<>> THEN <<>>
    ELSE PoolOfBlock(Head(fs).body) \o PoolOfFunctions(Tail(fs))

IsLea(l) == l.op = "lea"

IsDb(l) == l.op = "db"

\* C15: in a to_assembly pass the k-th instruction that loads a string refers
\* to str_<k-1> and the pool holds as many entries as there are such
\* instructions (one new entry per evaluation, equal strings included); at
\* the end the pool is the sequence of the evaluated strings and the data
\* section defines str_0 .. str_<n-1> once each, in that order.
C15_StringPoolInInsertionOrder ==
    genResult.kind \in {"Running", "Ok"} =>
        LET loads == SelectSeq(code, IsLea)
        IN  /\ Len(loads) = Len(string_literals)
            /\ \A k \in DOMAIN loads : loads[k].index = k - 1
            /\ genResult.kind = "Ok" =>
                  /\ string_literals = PoolOfFunctions(module.items)
                  /\ SelectSeq(genResult.asm, IsDb) \o <<>> =
                        [i \in 1..Len(string_literals) |->
                           [op |-> "db", index |-> i - 1,
                            str |-> string_literals[i]]]

\* print("s") twice in one function: two entries "s\n", loaded as str_0 and
\* str_1
C15_EqualStringsTwice ==
    /\ genResult.kind = "Ok"
    /\ string_literals = <<"s\n", "s\n">>
    /\ SelectSeq(code, IsLea) = <<Lea("rcx", 0), Lea("rcx", 1)>>

(***************************************************************************)
(* The two output modes of one CodeGenerator (codegen.rs): generate (IR)   *)
(* and to_assembly, called in any order on the same generator and module.  *)
(* A text is a sequence of lines.                                          *)
(***************************************************************************)
GeneratorFields ==
    [label_counter |-> label_counter, string_literals |-> string_literals,
     variables |-> variables, stack_offset |-> stack_offset,
     loop_stack |-> loop_stack]

\* "; Module: name"
ModuleLine(name) == [op |-> "; Module", name |-> name]

\* "function name(p: T, ..) [-> T] {"
FunctionLine(node) ==
    [op |-> "function", name |-> node.name, params |-> node.params,
     return_type |-> node.return_type]

Out(g, lines) == [g EXCEPT !.output = @ \o lines]

\* generate_node on g, the generator's fields with the output written so far.
\* Only Module and Function have an arm: every other node falls to `_ => {}`.
RECURSIVE generate_node(_, _)
RECURSIVE generate_nodes(_, _)
generate_node(node, g) ==
    CASE node.kind = "Module" ->
            generate_nodes(node.items, Out(g, <<ModuleLine(node.name)>>))
      [] node.kind = "Function" ->
            Out(generate_nodes(node.body,
                    [Out(g, <<FunctionLine(node)>>)
                       EXCEPT !.variables = NoVariables, !.stack_offset = 0]),
                <<Fixed("}"), Fixed("")>>)
      [] OTHER -> g

generate_nodes(nodes, g) ==
    IF nodes = <<>> THEN g
    ELSE generate_nodes(Tail(nodes), generate_node(Head(nodes), g))

FieldsOf(g) ==
    [label_counter |-> g.label_counter, string_literals |-> g.string_literals,
     variables |-> g.variables, stack_offset |-> g.stack_offset,
     loop_stack |-> g.loop_stack]

\* generate(ast) on a generator with fields f: the fields afterwards and the
\* text returned.
generate(f, ast) ==
    LET g == generate_node(ast, f @@ [output |-> <<>>])
    IN  [fields |-> FieldsOf(g), text |-> g.output]

\* A to_assembly that leaves the label counter as it finds it.
reset_keep_label_counter(f) ==
    [f EXCEPT !.string_literals = <<>>, !.variables = NoVariables,
              !.stack_offset = 0, !.loop_stack = <<>>]

\* The five assignments at the top of to_assembly.
reset(f) ==
    [f EXCEPT !.string_literals = <<>>, !.variables = NoVariables,
              !.stack_offset = 0, !.label_counter = 0, !.loop_stack = <<>>]

\* to_assembly(ast) on a generator with fields f.
to_assembly_on(f, ast) ==
    LET g == gen_loop(reset(f) @@ [code |-> <<>>,
                                   agenda |-> <<NodeItem(ast)>>,
                                   result |-> [kind |-> "Running"]])
    IN  [fields |-> FieldsOf(g), text |-> g.result.asm]

\* Modules that take labels, fill the string pool, declare variables and use
\* the loop stack.
CallsGen ==
    [simple |-> {FunctionCall("print", <<StringLit("s")>>),
                 VariableDecl("x", NoType, IntLit(1), FALSE),
                 Break},
     conds |-> {BoolLit(TRUE)},
     kinds |-> {"While", "If"},
     iterator |-> "x",
     ranges |-> {},
     fnames |-> {"f"},
     params |-> {<<>>},
     returns |-> {NoType}]

CallsInit ==
    /\ module \in ModulesOf(CallsGen, MaxNodes)
    /\ Analyzed
    /\ semResult.kind = "Ok"
    /\ GenIdle
    /\ LexIdle
    /\ RunIdle
    /\ LaterIdle

CallReturns(call, r) ==
    /\ label_counter' = r.fields.label_counter
    /\ string_literals' = r.fields.string_literals
    /\ variables' = r.fields.variables
    /\ stack_offset' = r.fields.stack_offset
    /\ loop_stack' = r.fields.loop_stack
    /\ returned' = Append(returned, [call |-> call, text |-> r.text])
    /\ UNCHANGED <<code, genAgenda, genResult, lexVars, semVars, runVars,
                   parseVars, compileVars>>

CallGenerate ==
    /\ Len(returned) < MaxGeneratorCalls
    /\ \E r \in {generate(GeneratorFields, module)} : CallReturns("generate", r)

CallToAssembly ==
    /\ Len(returned) < MaxGeneratorCalls
    /\ \E r \in {to_assembly_on(GeneratorFields, module)} :
          CallReturns("to_assembly", r)

CallsNext == CallGenerate \/ CallToAssembly

SpecCalls == CallsInit /\ [][CallsNext]_vars

(***************************************************************************)
(* Claims on the texts generate and to_assembly return.                    *)
(***************************************************************************)
\* The lines are the blocks of the functions fs in order: for each function
\* its header, one line for each statement of its body, `}`, a blank line.
RECURSIVE FunctionBlocks(_, _)
FunctionBlocks(lines, fs) ==
    IF fs = <<>> THEN lines = <<>>
    ELSE LET n == Len(Head(fs).body)
         IN  /\ Len(lines) >= n + 3
             /\ lines[1] = FunctionLine(Head(fs))
             /\ \A k \in 2..(n + 1) :
                   /\ lines[k] \notin {Fixed("}"), Fixed("")}
                   /\ lines[k].op # "function"
             /\ lines[n + 2] = Fixed("}")
             /\ lines[n + 3] = Fixed("")
             /\ FunctionBlocks(SubSeq(lines, n + 4, Len(lines)), Tail(fs))

\* C17: in the text generate returns, after the module line, every function
\* block is the header, exactly one line per top-level statement of the body
\* in order, then `}`.
C17_OneLinePerStatement ==
    \A i \in DOMAIN returned :
        returned[i].call = "generate" =>
            /\ returned[i].text # <<>>
            /\ returned[i].text[1] = ModuleLine(module.name)
            /\ FunctionBlocks(Tail(returned[i].text), module.items)

\* C20: every text to_assembly returns is the text a new generator returns
\* for the module (labels from L0, strings from str_0), whatever calls of
\* generate and to_assembly came before on the same generator.
C20_ToAssemblyDependsOnModuleOnly ==
    \A i \in DOMAIN returned :
        returned[i].call = "to_assembly" =>
            returned[i].text = to_assembly(module).asm

IsLabelL0(l) == l = Label("L0")

\* generate, then to_assembly twice on a module with a label and a string:
\* the generator is left with a used label counter and pool after the second
\* call, and the third returns the same text, with L0 and str_0 in it
C20_CalledAfterGenerateAndTwice ==
    /\ Len(returned) = 3
    /\ returned[1].call = "generate"
    /\ returned[2].call = "to_assembly"
    /\ returned[3].call = "to_assembly"
    /\ returned[2].text = returned[3].text
    /\ label_counter > 0
    /\ string_literals # <<>>
    /\ SelectSeq(returned[3].text, IsLabelL0) # <<>>
    /\ \E k \in DOMAIN returned[3].text :
          /\ returned[3].text[k].op = "db"
          /\ returned[3].text[k].index = 0

(***************************************************************************)
(* Analyzer claim on conditions.                                           *)
(***************************************************************************)
ConditionRejected(result) ==
    result.kind = "Err" /\ result.msg = "Condition must be boolean"

\* C18: when the analyzer visits an if or a while whose condition itself is
\* analyzed without error, it rejects the statement with "Condition must be
\* boolean" exactly when the condition has a determined type other than bool;
\* a function call used directly as the condition has no determined type and
\* is accepted.
C18_ConditionRejectedIffNotBool ==
    [][Visiting({"If", "While"}) =>
         LET condition == Head(agenda).node.condition
             c == visit_expression(condition, symbol_table)
         IN  c.ok =>
               (ConditionRejected(semResult') <=>
                  /\ condition.kind # "FunctionCall"
                  /\ c.type # NoType
                  /\ c.type # Ty("Bool"))]_vars

(***************************************************************************)
(* compile (main.rs): the stages in the order of the function body, each   *)
(* `?` returning the error of its stage.  stage is the sequence of stages  *)
(* started, stdout the lines printed, files the artifacts written.  The    *)
(* file system and the assembler and linker are the environment: a read or *)
(* a write succeeds or fails, nasm and link succeed or fail.               *)
(***************************************************************************)
StageOrder == <<"read", "lex", "parse", "semantic", "ir", "asm", "link">>

Err(variant, detail) ==
    [kind |-> "Err", error |-> [variant |-> variant, detail |-> detail]]

\* lexer.tokenize()?
lexical_analysis(source) ==
    LET r == tokenize(source)
    IN  CASE r.kind = "Ok" -> r
          [] r.kind = "Err" -> Err("LexerError", r.msg)
          [] OTHER -> [kind |-> "Panic"]

\* parser.parse()?
parsing(toks) ==
    LET r == parse(toks)
    IN  IF r.kind = "Ok" THEN r ELSE Err("ParseError", r.error.msg)

\* An analysis whose result is dropped.
semantic_analysis_unchecked(ast) == [kind |-> "Ok"]

\* semantic.analyze(&ast)?
semantic_analysis(ast) ==
    LET r == analyze(ast)
    IN  IF r.kind = "Ok" THEN r ELSE Err("SemanticError", r.msg)

FnSource(body) == <<"f", "n", " ", "f", "(", ")", "{">> \o body \o <<"}">>

SourceAlphabet == {"x", "1", ";", "=", "#"}

\* fn f(){..} over short bodies; a declaration and its use; a print of a
\* string in a loop; an integer literal above i64::MAX.
CompileSources ==
    {FnSource(b) : b \in SeqsUpTo(SourceAlphabet, MaxSourceLen)}
    \cup {FnSource(<<"l", "e", "t", " ", "x", "=", "1", ";", "x", ";">>),
          FnSource(<<"l", "o", "o", "p", "{", "p", "r", "i", "n", "t", "(",
                     DQ, "s", DQ, ")", ";", "}">>),
          FnSource(OverI64Digits \o <<";">>)}

CompileInit ==
    /\ input \in CompileSources
    /\ emit_ir \in BOOLEAN
    /\ stage = <<>>
    /\ stdout = <<>>
    /\ files = <<>>
    /\ compileResult = [kind |-> "Running"]
    /\ position = 0
    /\ line = 1
    /\ column = 1
    /\ tokens = <<>>
    /\ lexResult = [kind |-> "Idle"]
    /\ SemIdle
    /\ GenIdle
    /\ RunIdle
    /\ ParseIdle
    /\ returned = <<>>

\* The next statement of compile belongs to stage s.
Before(s) ==
    /\ compileResult.kind = "Running"
    /\ Len(stage) < Len(StageOrder)
    /\ StageOrder[Len(stage) + 1] = s

\* Stage s runs, prints lines and ends with result r (Running: falls through
\* to the next stage).
Runs(s, lines, r) ==
    /\ stage' = Append(stage, s)
    /\ stdout' = stdout \o lines
    /\ compileResult' = r

CompileUnchanged ==
    UNCHANGED <<position, line, column, lexResult, symbol_table,
                current_function_return, agenda, semResult, label_counter,
                string_literals, loop_stack, code, genAgenda, genResult,
                runVars, parseVars, returned, input, emit_ir>>

\* fs::read_to_string(source_file) .map_err(IoError)?
CompileRead ==
    /\ Before("read")
    /\ \E ok \in BOOLEAN :
          Runs("read", <<"Compiling">>,
               IF ok THEN compileResult ELSE Err("IoError", "read"))
    /\ UNCHANGED <<tokens, module, variables, stack_offset, files>>
    /\ CompileUnchanged

CompileLex ==
    /\ Before("lex")
    /\ \E r \in {lexical_analysis(input)} :
          /\ Runs("lex", <<"[1/5] Lexical analysis">>,
                  IF r.kind = "Ok" THEN compileResult ELSE r)
          /\ tokens' = IF r.kind = "Ok" THEN r.tokens ELSE tokens
    /\ UNCHANGED <<module, variables, stack_offset, files>>
    /\ CompileUnchanged

CompileParse ==
    /\ Before("parse")
    /\ \E r \in {parsing(tokens)} :
          /\ Runs("parse", <<"[2/5] Parsing">>,
                  IF r.kind = "Ok" THEN compileResult ELSE r)
          /\ module' = IF r.kind = "Ok" THEN r.node ELSE module
    /\ UNCHANGED <<tokens, variables, stack_offset, files>>
    /\ CompileUnchanged

CompileAnalyze ==
    /\ Before("semantic")
    /\ \E r \in {semantic_analysis(module)} :
          Runs("semantic",
               <<"[3/5] Semantic analysis">>
               \o (IF r.kind = "Ok"
                   THEN <<"Semantic analysis completed successfully">>
                   ELSE <<>>),
               IF r.kind = "Ok" THEN compileResult ELSE r)
    /\ UNCHANGED <<tokens, module, variables, stack_offset, files>>
    /\ CompileUnchanged

\* codegen.generate(&ast)?, then the IR file when emit_ir is set.
CompileGenerate ==
    /\ Before("ir")
    /\ \E r \in {generate(GeneratorFields, module)} : \E written \in BOOLEAN :
          /\ variables' = r.fields.variables
          /\ stack_offset' = r.fields.stack_offset
          /\ Runs("ir",
                  <<"[4/5] Code generation", "Generated lines of IR">>
                  \o (IF emit_ir /\ written THEN <<"IR written">> ELSE <<>>),
                  IF emit_ir /\ ~written THEN Err("IoError", "write ir")
                  ELSE compileResult)
          /\ files' = IF emit_ir /\ written
                      THEN Append(files, [name |-> ".ir", text |-> r.text])
                      ELSE files
    /\ UNCHANGED <<tokens, module>>
    /\ CompileUnchanged

\* codegen.to_assembly(&ast)?, then the .asm file.
CompileToAssembly ==
    /\ Before("asm")
    /\ \E r \in {to_assembly_on(GeneratorFields, module)} : \E written \in BOOLEAN :
          /\ variables' = r.fields.variables
          /\ stack_offset' = r.fields.stack_offset
          /\ label_counter' = r.fields.label_counter
          /\ string_literals' = r.fields.string_literals
          /\ loop_stack' = r.fields.loop_stack
          /\ Runs("asm",
                  <<"[5/5] Assembling and linking",
                    "Generated lines of assembly">>,
                  IF written THEN compileResult ELSE Err("IoError", "write asm"))
          /\ files' = IF written
                      THEN Append(files, [name |-> ".asm", text |-> r.text])
                      ELSE files
    /\ UNCHANGED <<tokens, module, position, line, column, lexResult,
                   symbol_table, current_function_return, agenda, semResult,
                   code, genAgenda, genResult, runVars, parseVars, returned,
                   input, emit_ir>>

\* assemble_and_link: nasm fails, or writes the object file and link fails, or
\* link writes the executable and the object file is removed; on a platform
\* other than Windows the function returns LinkError at once.
CompileAssembleAndLink ==
    /\ Before("link")
    /\ \E outcome \in {"AssemblyError", "LinkError", "NotWindows", "Ok"} :
          /\ Runs("link", <<>>,
                  CASE outcome = "Ok" -> [kind |-> "Ok"]
                    [] outcome = "NotWindows" -> Err("LinkError", "platform")
                    [] OTHER -> Err(outcome, "tool"))
          /\ files' = CASE outcome = "Ok" ->
                              Append(files, [name |-> ".exe", text |-> <<>>])
                        [] outcome = "LinkError" ->
                              Append(files, [name |-> ".obj", text |-> <<>>])
                        [] OTHER -> files
    /\ UNCHANGED <<tokens, module, variables, stack_offset>>
    /\ CompileUnchanged

CompileNext ==
    \/ CompileRead
    \/ CompileLex
    \/ CompileParse
    \/ CompileAnalyze
    \/ CompileGenerate
    \/ CompileToAssembly
    \/ CompileAssembleAndLink

SpecCompile == CompileInit /\ [][CompileNext]_vars

(***************************************************************************)
(* Claim on the order of the stages of compile.                            *)
(***************************************************************************)
\* What the three front-end stages, composed as functions, make of a source:
\* the first result that is not Ok, or Ok.
FrontEnd(source) ==
    LET t == lexical_analysis(source)
    IN  IF t.kind # "Ok" THEN t
        ELSE LET p == parsing(t.tokens)
             IN  IF p.kind # "Ok" THEN p
                 ELSE LET a == analyze(p.node)
                      IN  IF a.kind # "Ok" THEN Err("SemanticError", a.msg)
                          ELSE [kind |-> "Ok"]

Started(s) == \E i \in DOMAIN stage : stage[i] = s

\* The stage an artifact is written by.
WrittenBy == ".ir" :> "ir" @@ ".asm" :> "asm" @@ ".obj" :> "link" @@ ".exe" :> "link"

\* The stages an error variant can come from.
RaisedBy ==
    "IoError" :> {"read", "ir", "asm"} @@ "LexerError" :> {"lex"} @@
    "ParseError" :> {"parse"} @@ "SemanticError" :> {"semantic"} @@
    "AssemblyError" :> {"link"} @@ "LinkError" :> {"link"}

\* C16: the stages started are an initial part of read, lexing, parsing,
\* semantic analysis, IR generation, assembly generation, assemble/link;
\* every artifact written comes from a stage that was started; an error
\* returned comes from the last stage started (no later stage was started,
\* no later artifact written); IR generation is started only for a source
\* that lexing, parsing and semantic analysis accept; an error of the front
\* end is the first error of lexing, parsing and analysis in that order.
C16_StagesInOrderAndFailFast ==
    /\ stage = SubSeq(StageOrder, 1, Len(stage))
    /\ \A i \in DOMAIN files : Started(WrittenBy[files[i].name])
    /\ compileResult.kind \in {"Err", "Panic"} => stage # <<>>
    /\ compileResult.kind = "Err" =>
          stage[Len(stage)] \in RaisedBy[compileResult.error.variant]
    /\ compileResult.kind = "Panic" => stage[Len(stage)] = "lex"
    /\ Started("ir") => FrontEnd(input).kind = "Ok"
    /\ (compileResult.kind # "Running" /\ stage # <<>>
          /\ stage[Len(stage)] \in {"lex", "parse", "semantic"}) =>
            compileResult = FrontEnd(input)
    /\ compileResult.kind = "Ok" => stage = StageOrder

\* the analyzer rejected the program (fn f(){x;}): compile returned its
\* SemanticError after four stages with nothing generated or written
C16_StoppedAtSemanticError ==
    /\ compileResult.kind = "Err"
    /\ compileResult.error.variant = "SemanticError"
    /\ stage = <<"read", "lex", "parse", "semantic">>
    /\ files = <<>>
    /\ module # NoNode

(***************************************************************************)
(* Code generator claims on break and continue.                            *)
(***************************************************************************)
\* The statements still to be generated and the tails of the statements
\* around them are the agenda: the innermost loop around the statement at its
\* head is the first loop tail that comes before the end of the function.
\* 0 when there is none.
EnclosingLoop(ag) ==
    LET ends == {i \in 2..Len(ag) :
                   ag[i].op \in {"end_loop", "end_for", "end_function"}}
        first == IF ends = {} THEN 0
                 ELSE CHOOSE i \in ends : \A j \in ends : i <= j
    IN  IF first = 0 \/ ag[first].op = "end_function" THEN 0 ELSE first

\* A loop tail ends with `jmp start_label` and `end_label:`.
LoopStartLabel(item) == item.code[Len(item.code) - 1].arg

LoopEndLabel(item) == item.code[Len(item.code)].arg

\* C21: a break emits exactly a jump to the end label, a continue exactly a
\* jump to the start label, of the innermost while/for/loop around it in the
\* function (if-branches between them do not count, a nested loop already
\* closed does not count); with no loop around it nothing is emitted.
C21_BreakContinueTargetInnermostLoop ==
    [][Generating("stmt", {"Break", "Continue"}) =>
         LET loop == EnclosingLoop(genAgenda)
         IN  code' = code \o
               (IF loop = 0 THEN <<>>
                ELSE IF Head(genAgenda).node.kind = "Break"
                THEN <<Jump("jmp", LoopEndLabel(genAgenda[loop]))>>
                ELSE <<Jump("jmp", LoopStartLabel(genAgenda[loop]))>>)]_vars

\* while L0/L1 { while L2/L3 { } break; }: the break after the closed inner
\* loop has just been emitted as a jump to L1
C21_BreakAfterNestedLoop ==
    /\ genResult.kind = "Running"
    /\ loop_stack = <<<<"L1", "L0">>>>
    /\ Len(code) >= 2
    /\ code[Len(code)] = Jump("jmp", "L1")
    /\ code[Len(code) - 1] = Label("L3")

\* ---------------------------------------------------------------------
\* Semantic analyzer claims on scope pairing
\* ---------------------------------------------------------------------

\* C22: scope pushes and pops are strictly paired, so whenever analyze
\* returns, with Ok or with Err, the scope stack holds exactly the single
\* module-level scope it started with.
C22_ScopesPairedAtReturn ==
    SemDone => Len(symbol_table) = 1

\* ---------------------------------------------------------------------
\* Code generator claims on the stack frame
\* ---------------------------------------------------------------------

FrameLines == {"load", "store"}

\* The index of the prologue's `sub rsp` of the function line i belongs to
\* (0 when there is none before line i).
RECURSIVE PrologueOf(_, _)
PrologueOf(asm, i) ==
    IF i = 0 THEN 0
    ELSE IF asm[i].op = "sub rsp" /\ i > 1 /\ asm[i - 1] = Fixed("mov rbp, rsp")
    THEN i
    ELSE PrologueOf(asm, i - 1)

\* C23: the bytes the prologue of a function subtracts from rsp are at
\* least the largest offset k of a [rbp-k] the code of that function stores
\* to or loads from.
C23_FrameCoversEveryOffset ==
    \A i \in 1..Len(code) :
        code[i].op \in FrameLines =>
            /\ PrologueOf(code, i) # 0
            /\ code[i].offset <= code[PrologueOf(code, i)].imm

\* A finished function whose locals reach below the 32 bytes of shadow space.
C23_LocalsBelowShadowSpace ==
    /\ genResult.kind = "Ok"
    /\ \E i \in 1..Len(code) : code[i].op \in FrameLines /\ code[i].offset > 32

\* One slot for every let and const at any depth, two for every for loop.
RECURSIVE DeclaredSlots(_)
DeclaredSlots(body) ==
    LET Slots(stmt) ==
            CASE stmt.kind \in {"VariableDecl", "ConstDecl"} -> 1
              [] stmt.kind = "For" -> 2 + DeclaredSlots(stmt.body)
              [] stmt.kind \in {"While", "Loop"} -> DeclaredSlots(stmt.body)
              [] stmt.kind = "If" ->
                    DeclaredSlots(stmt.then_branch)
                    + (IF stmt.else_branch.some
                       THEN DeclaredSlots(stmt.else_branch.body) ELSE 0)
              [] OTHER -> 0
        Sum[i \in 0..Len(body)] ==
            IF i = 0 THEN 0 ELSE Sum[i - 1] + Slots(body[i])
    IN  Sum[Len(body)]

\* C24: the prologue of a function subtracts from rsp 8 bytes for each of
\* its N slots, rounded up to a multiple of 16, plus 32, where N counts one
\* slot per let or const at any depth and two per for loop.
C24_FrameIsSlotsRoundedPlusShadow ==
    [][Generating("node", {"Function"}) =>
         code'[Len(code')]
           = SubRsp(((DeclaredSlots(Head(genAgenda).node.body) * 8 + 15) \div 16) * 16
                    + 32)]_vars

\* The offsets the code of the function being generated stores to or loads
\* from so far.
OffsetsInUse ==
    {code[i].offset :
        i \in {j \in PrologueOf(code, Len(code))..Len(code) :
                  j # 0 /\ code[j].op \in FrameLines}}

\* C25: within a function the offset counter is never decremented, and the
\* slot a let, a const or a for iterator is given lies strictly above every
\* slot given out before it, so no two declarations share a slot.
C25_SlotsStrictlyIncreasing ==
    [][/\ Generating("stmt", {"VariableDecl", "ConstDecl", "For"}) =>
             \A k \in OffsetsInUse : k < stack_offset + 8
       /\ stack_offset' < stack_offset => Generating("node", {"Function"})]_vars

\* ---------------------------------------------------------------------
\* Code generator claims on the variable map
\* ---------------------------------------------------------------------

DeclaredName(node) == IF node.kind = "For" THEN node.iterator ELSE node.name

\* C26: the map from names to offsets is flat per function.  A declaration
\* of a name (let, const, for iterator) maps it to the new slot whether or
\* not the name is mapped already and changes no other entry; no step but
\* a declaration and the start of a function changes the map, so the end
\* of a block restores nothing; a read or an assignment of a mapped name
\* addresses the slot the map holds, the one of the latest declaration.
C26_FlatMapLatestDeclarationWins ==
    [][/\ Generating("stmt", {"VariableDecl", "ConstDecl", "For"}) =>
            variables' = (DeclaredName(Head(genAgenda).node) :> (stack_offset + 8))
                         @@ variables
       /\ ~ Generating("stmt", {"VariableDecl", "ConstDecl", "For"})
          /\ ~ Generating("node", {"Function"})
            => variables' = variables
       /\ Generating("node", {"Function"}) => variables' = NoVariables
       /\ Generating("stmt", {"Identifier"})
          /\ Head(genAgenda).node.name \in DOMAIN variables
            => code' = code \o <<Load("rax", variables[Head(genAgenda).node.name])>>
       /\ Generating("stmt", {"Assignment"})
          /\ Head(genAgenda).node.target \in DOMAIN variables
            => code'[Len(code')]
                 = Store(variables[Head(genAgenda).node.target], "rax")]_vars

\* A name declared at [rbp-8] and again inside a block at [rbp-16] is read
\* after the end label of that block from [rbp-16].
C26_ReadAfterBlockTakesInnerSlot ==
    /\ genResult.kind = "Ok"
    /\ \E k \in 2..(Len(code) - 1) :
          /\ code[k] = Load("rax", 16)
          /\ code[k - 1].op = "label"
          /\ code[k + 1] = Fixed("xor eax, eax")
          /\ \E i \in 1..k : code[i] = Store(8, "rax")

\* ---------------------------------------------------------------------
\* Code generator claims on function epilogues
\* ---------------------------------------------------------------------

Epilogue == <<Fixed("xor eax, eax"), Fixed("leave"), Fixed("ret")>>

TopLevelKinds(body) == {body[i].kind : i \in 1..Len(body)}

\* C27: at the end of a function body the implicit epilogue `xor eax, eax`,
\* `leave`, `ret` is appended exactly when no top-level statement of the
\* body is a return, a return nested in a block not counting; every return
\* statement emits `leave`, `ret` as its last two lines.
C27_ImplicitEpilogueIffNoTopLevelReturn ==
    [][/\ Generating("end_function", {}) =>
            code' = code \o (IF "Return" \in TopLevelKinds(Head(genAgenda).body)
                             THEN <<>> ELSE Epilogue)
       /\ Generating("stmt", {"Return"}) =>
            /\ Len(code') >= Len(code) + 2
            /\ SubSeq(code', Len(code') - 1, Len(code'))
                 = <<Fixed("leave"), Fixed("ret")>>]_vars

\* A function whose only return is nested in a block: the text holds the
\* `ret` of the return and the `ret` of the implicit epilogue.
C27_NestedReturnThenEpilogue ==
    /\ genResult.kind = "Ok"
    /\ Len(module.items) = 1
    /\ "Return" \notin TopLevelKinds(module.items[1].body)
    /\ Cardinality({i \in 1..Len(code) : code[i] = Fixed("ret")}) = 2
    /\ SubSeq(code, Len(code) - 2, Len(code)) = Epilogue

(***************************************************************************)
(* The analyzer on binary operations: one function whose body is a let     *)
(* with or without a type annotation and a binary operation as its value,  *)
(* the operands literals of three types and binary operations on them.     *)
(***************************************************************************)
BinaryOperators ==
    {"+", "-", "*", "/", "%", "==", "!=", "<", "<=", ">", ">=", "&&", "||"}

BinaryAtoms == {IntLit(1), BoolLit(TRUE), StringLit("s")}

BinaryOperands ==
    BinaryAtoms
    \cup {BinaryOp(a, op, b) : a \in BinaryAtoms, b \in BinaryAtoms,
                               op \in {"+", "<"}}

BinaryAnnotations == {NoType, Ty("I32"), Ty("Bool"), Ty("Str")}

BinaryModules ==
    {Module("main",
        <<Function("f", <<>>, NoType,
             <<VariableDecl("y", t, BinaryOp(l, op, r), FALSE)>>)>>) :
        l \in BinaryOperands, r \in BinaryOperands,
        op \in BinaryOperators, t \in BinaryAnnotations}

BinaryInit ==
    /\ module \in BinaryModules
    /\ symbol_table = NewAnalyzer(module).symbol_table
    /\ current_function_return = NewAnalyzer(module).current_function_return
    /\ agenda = NewAnalyzer(module).agenda
    /\ semResult = NewAnalyzer(module).result
    /\ LexIdle
    /\ GenIdle
    /\ RunIdle
    /\ LaterIdle

BinaryNext ==
    \/ VisitModule
    \/ VisitFunction
    \/ VisitVariableDecl
    \/ EndFunction
    \/ AnalyzeReturn

SpecBinary == BinaryInit /\ [][BinaryNext]_vars

Mismatch == [tag |-> "Mismatch"]

\* The type of an expression built from literals and binary operations by
\* the rule of the claim, Mismatch when an operation in it has operands of
\* unequal types.
RECURSIVE BinaryTyping(_)
BinaryTyping(e) ==
    IF e.kind = "Literal" THEN LiteralType[e.lit]
    ELSE LET lt == BinaryTyping(e.left)
             rt == BinaryTyping(e.right)
         IN  IF Mismatch \in {lt, rt} \/ lt # rt THEN Mismatch
             ELSE IF e.op \in {"==", "!=", "<", "<=", ">", ">=", "&&", "||"}
             THEN Ty("Bool")
             ELSE lt

BinaryProbe == module.items[1].body[1]

\* C28: a binary operation whose operand types are both determined is
\* rejected with a SemanticError when the two types are not structurally
\* equal; otherwise its type is bool for == != < <= > >= && || whatever
\* the operand type, and the operand type for every other operator.  The
\* type shows in the operation that encloses it and in the annotation of
\* the let it initializes.
C28_BinaryOperationTyping ==
    SemDone =>
        semResult =
            (IF BinaryTyping(BinaryProbe.value) = Mismatch
             THEN [kind |-> "Err", msg |-> "Type mismatch in binary operation"]
             ELSE IF BinaryProbe.var_type
                        \notin {NoType, BinaryTyping(BinaryProbe.value)}
             THEN [kind |-> "Err", msg |-> "Type mismatch"]
             ELSE [kind |-> "Ok"])

\* `let y: bool = 1 && 1;` is accepted: integer operands, result bool.
C28_LogicalOnIntegersIsBool ==
    /\ semResult.kind = "Ok"
    /\ BinaryProbe.var_type = Ty("Bool")
    /\ BinaryProbe.value.op = "&&"
    /\ BinaryProbe.value.left = IntLit(1)

(***************************************************************************)
(* Running the text of an expression statement: `fn f(x: i32) { let y =   *)
(* 3; l op r; }` with the operands literals, the local y, the parameter x, *)
(* a call g() and binary operations on literals and y.  Registers hold     *)
(* what the text computes as terms over the values it read.                *)
(***************************************************************************)
ExprAtoms ==
    {IntLit(1), IntLit(2), Identifier("y"), Identifier("x"),
     FunctionCall("g", <<>>)}

ExprOperands ==
    ExprAtoms
    \cup {BinaryOp(a, op, b) : a \in {IntLit(1), Identifier("y")},
                               b \in {IntLit(2), Identifier("y")},
                               op \in {"-", "/", "<"}}

ExprModules ==
    {Module("main",
        <<Function("f", <<Param("x", Ty("I32"))>>, NoType,
             <<VariableDecl("y", NoType, IntLit(3), FALSE),
               BinaryOp(l, op, r)>>)>>) :
        l \in ExprOperands, r \in ExprOperands, op \in DOMAIN BinaryOpLines}

\* What rax, rcx and rdx hold when f is entered: the first argument in rcx
\* (the calling convention of the target), the caller's leftovers elsewhere.
EntryRegisters ==
    [rax |-> [entry |-> "rax"], rcx |-> [param |-> "x"], rdx |-> [entry |-> "rdx"]]

ExprInit ==
    /\ module \in ExprModules
    /\ Analyzed
    /\ semResult.kind = "Ok"
    /\ GenIs(gen_loop(NewCodeGenerator(module)))
    /\ pc = LabelIndex(genResult.asm, "f")
    /\ registers = EntryRegisters
    /\ flags = NoFlags
    /\ memory = [o \in {} |-> I64(0)]
    /\ stack = <<>>
    /\ calls = <<>>
    /\ runResult = [kind |-> "Running"]
    /\ LexIdle
    /\ LaterIdle

Term(op, l, r) == [op |-> op, left |-> l, right |-> r]

\* push rax
ExecPush ==
    /\ Executing({"push rax"})
    /\ stack' = Append(stack, registers["rax"])
    /\ pc' = pc + 1
    /\ UNCHANGED <<registers, flags, memory, calls, runResult, lexVars, semVars,
                   genVars, laterVars>>

\* pop rcx
ExecPop ==
    /\ Executing({"pop rcx"})
    /\ stack # <<>>
    /\ registers' = [registers EXCEPT !["rcx"] = stack[Len(stack)]]
    /\ stack' = SubSeq(stack, 1, Len(stack) - 1)
    /\ pc' = pc + 1
    /\ UNCHANGED <<flags, memory, calls, runResult, lexVars, semVars, genVars,
                   laterVars>>

ArithmeticLines ==
    "add rax, rcx" :> "+" @@ "sub rax, rcx" :> "-" @@ "imul rax, rcx" :> "*"
    @@ "and rax, rcx" :> "&&" @@ "or rax, rcx" :> "||"

\* add, sub, imul, and, or: rax := rax op rcx
ExecArithmetic ==
    /\ Executing(DOMAIN ArithmeticLines)
    /\ RunApply(pc + 1,
                [registers EXCEPT !["rax"] =
                    Term(ArithmeticLines[genResult.asm[pc].op],
                         registers["rax"], registers["rcx"])],
                flags, memory)

\* xor rdx, rdx
ExecClearRdx ==
    /\ Executing({"xor rdx, rdx"})
    /\ RunApply(pc + 1, [registers EXCEPT !["rdx"] = I64(0)], flags, memory)

\* idiv rcx: the quotient of rdx:rax by rcx in rax, the remainder in rdx.
ExecIdiv ==
    /\ Executing({"idiv rcx"})
    /\ registers["rdx"] = I64(0)
    /\ RunApply(pc + 1,
                [registers EXCEPT
                    !["rax"] = Term("/", registers["rax"], registers["rcx"]),
                    !["rdx"] = Term("%", registers["rax"], registers["rcx"])],
                flags, memory)

\* mov rax, rdx
ExecMovRdx ==
    /\ Executing({"mov rax, rdx"})
    /\ RunApply(pc + 1, [registers EXCEPT !["rax"] = registers["rdx"]],
                flags, memory)

\* cmp rax, rcx: the flags of rax - rcx
ExecCompare ==
    /\ Executing({"cmp rax, rcx"})
    /\ RunApply(pc + 1, registers,
                [left |-> registers["rax"], right |-> registers["rcx"]], memory)

SetLines ==
    "sete al" :> "==" @@ "setne al" :> "!=" @@ "setl al" :> "<"
    @@ "setle al" :> "<=" @@ "setg al" :> ">" @@ "setge al" :> ">="

\* setcc al: the low byte of rax is the condition, the rest stays.
ExecSet ==
    /\ Executing(DOMAIN SetLines)
    /\ RunApply(pc + 1,
                [registers EXCEPT !["rax"] =
                    [al |-> Term(SetLines[genResult.asm[pc].op],
                                 flags.left, flags.right),
                     rest |-> registers["rax"]]],
                flags, memory)

\* movzx rax, al
ExecMovzx ==
    /\ Executing({"movzx rax, al"})
    /\ RunApply(pc + 1, [registers EXCEPT !["rax"] = registers["rax"].al],
                flags, memory)

ExprNext ==
    \/ ExecLabel
    \/ ExecFrame
    \/ ExecMovImm
    \/ ExecLoad
    \/ ExecStore
    \/ ExecPush
    \/ ExecPop
    \/ ExecArithmetic
    \/ ExecClearRdx
    \/ ExecIdiv
    \/ ExecMovRdx
    \/ ExecCompare
    \/ ExecSet
    \/ ExecMovzx
    \/ ExecXor
    \/ ExecRet

SpecExpr == ExprInit /\ [][ExprNext]_vars

\* The value of an expression of f: literals, the local y (initialized with
\* 3 and never assigned), the argument x, the result of g, operations.
RECURSIVE ValueOf(_)
ValueOf(e) ==
    CASE e.kind = "Literal" -> e.int
      [] e.kind = "Identifier" -> IF e.name = "y" THEN I64(3) ELSE [param |-> e.name]
      [] e.kind = "FunctionCall" -> [call |-> e.name]
      [] e.kind = "BinaryOp" -> Term(e.op, ValueOf(e.left), ValueOf(e.right))

RootOperation == module.items[1].body[2]

\* The text is about to execute the operator instructions of the root
\* operation: the last ones before the epilogue.
AtRootOperator ==
    LET lines == BinaryOpLines[RootOperation.op]
        asm == genResult.asm
    IN  /\ runResult.kind = "Running"
        /\ pc + Len(lines) <= Len(asm)
        /\ SubSeq(asm, pc, pc + Len(lines) - 1) = lines
        /\ asm[pc + Len(lines)] = Fixed("xor eax, eax")

AfterRootOperation ==
    /\ runResult.kind = "Running"
    /\ genResult.asm[pc] = Fixed("xor eax, eax")

\* C29: right operand, `push rax`, left operand, `pop rcx`, operator: at
\* the operator instruction rax holds the value of the left operand and rcx
\* the value of the right operand, and after the expression the machine
\* stack is as deep as before it.
C29_OperandsInRaxAndRcx ==
    /\ AtRootOperator =>
          /\ registers["rax"] = ValueOf(RootOperation.left)
          /\ registers["rcx"] = ValueOf(RootOperation.right)
    /\ AfterRootOperation => stack = <<>>

(***************************************************************************)
(* Running for loops whose body holds a continue: the body prints, then    *)
(* continues, directly or from inside an if that is or is not taken.       *)
(***************************************************************************)
ContinueBodies ==
    {<<FunctionCall("print", <<StringLit("x")>>), Continue>>,
     <<FunctionCall("print", <<StringLit("x")>>),
       If(BoolLit(TRUE), <<Continue>>, NoBlock)>>,
     <<FunctionCall("print", <<StringLit("x")>>),
       If(BoolLit(FALSE), <<Continue>>, NoBlock)>>}

ContinueModules ==
    {Module("main", <<Function("main", <<>>, NoType,
                               <<For("i", a, b, inclusive, body)>>)>>) :
        a \in RunBounds, b \in RunBounds, inclusive \in BOOLEAN,
        body \in ContinueBodies}

ContinueInit ==
    /\ module \in ContinueModules
    /\ Analyzed
    /\ semResult.kind = "Ok"
    /\ GenIs(gen_loop(NewCodeGenerator(module)))
    /\ pc = LabelIndex(genResult.asm, "main")
    /\ registers \in Scratch
    /\ flags = NoFlags
    /\ memory = [o \in {} |-> I64(0)]
    /\ stack = <<>>
    /\ calls = <<>>
    /\ runResult = [kind |-> "Running"]
    /\ LexIdle
    /\ LaterIdle

SpecContinue == ContinueInit /\ [][RunNext]_vars

\* bound - start + 1 for the literals of the loop; no bound the run could
\* exceed when the literals lie at the two ends of the i64 range.
IterationBound ==
    LET a == RunFor.range_start.int
        b == RunFor.range_end.int
    IN  IF a.near = b.near
        THEN (IF b.off - a.off + 1 > 0 THEN b.off - a.off + 1 ELSE 0)
        ELSE IF SignedLess(a, b) THEN MaxCalls + 1 ELSE 0

\* C30: the text of a for loop over integer literals whose body executes
\* continue advances the iterator at each continue, so the body runs at
\* most bound - start + 1 times (each run of the body prints once).
C30_ContinueAdvancesIterator ==
    Len(calls) <= IterationBound

=============================================================================
